---- MODULE Spec2Model ----
(***************************************************************************)
(* The turn orchestration graph of the analytics assistant                 *)
(* (src/src/app/graph/builder.py), the AgentStep record it keeps           *)
(* (src/src/app/graph/state.py) and the agents it calls                    *)
(* (src/src/app/agents/), as a state machine.                              *)
(*                                                                         *)
(* Python values are tagged records [t, v]: t is the Python type, v the    *)
(* value.  Text is a sequence of one-character strings, so that lower(),   *)
(* slicing and concatenation are computed and not assumed.  A dict is a    *)
(* function over its keys; a missing key is a key outside DOMAIN.          *)
(***************************************************************************)
EXTENDS Integers, Sequences, FiniteSets, TLC

(***************************************************************************)
(* Bounds of the model.                                                    *)
(***************************************************************************)
\* number of chat turns one run of the session handles
MaxTurns == 2

(***************************************************************************)
(* Python values.                                                          *)
(***************************************************************************)
PyNone == [t |-> "none", v |-> <<>>]
PyStr(s) == [t |-> "str", v |-> s]
PyInt(n) == [t |-> "int", v |-> n]
PyList(l) == [t |-> "list", v |-> l]
PyDict(d) == [t |-> "dict", v |-> d]
Ref(i) == [t |-> "ref", v |-> i]
Time(n) == [t |-> "time", v |-> n]

\* bool(x) for the values the orchestrator tests
Truthy(x) ==
    CASE x.t = "none" -> FALSE
      [] x.t = "str" -> x.v # <<>>
      [] x.t = "int" -> x.v # 0
      [] x.t = "list" -> x.v # <<>>
      [] x.t = "dict" -> DOMAIN x.v # {}
      [] OTHER -> TRUE

\* d.get(k, default)
Get(d, k, default) == IF k \in DOMAIN d THEN d[k] ELSE default

\* d[k] = val
Put(d, k, val) == [x \in (DOMAIN d) \cup {k} |-> IF x = k THEN val ELSE d[x]]

\* {}
EmptyDict == <<>>

\* a mapping with the keys of fields whose value is given (Missing: key absent)
Missing == [t |-> "missing", v |-> <<>>]
Mapping(fields) == [k \in {x \in DOMAIN fields : fields[x] # Missing} |-> fields[k]]

(***************************************************************************)
(* Text constants of the source.                                           *)
(***************************************************************************)
TXT_data == <<"d", "a", "t", "a">>
TXT_non_data == <<"n", "o", "n", "-", "d", "a", "t", "a">>
TXT_medium == <<"m", "e", "d", "i", "u", "m">>
TXT_high == <<"h", "i", "g", "h">>
TXT_no_rationale ==
    <<"N", "o", " ", "r", "a", "t", "i", "o", "n", "a", "l", "e", " ",
      "p", "r", "o", "v", "i", "d", "e", "d">>
TXT_select_1 == <<"S", "E", "L", "E", "C", "T", " ", "1">>
TXT_no_explanation ==
    <<"N", "o", " ", "e", "x", "p", "l", "a", "n", "a", "t", "i", "o", "n", " ",
      "p", "r", "o", "v", "i", "d", "e", "d">>
TXT_correction_failed ==
    <<"C", "o", "r", "r", "e", "c", "t", "i", "o", "n", " ",
      "f", "a", "i", "l", "e", "d", ":", " ">>
TXT_sql_execution_failed ==
    <<"S", "Q", "L", " ", "e", "x", "e", "c", "u", "t", "i", "o", "n", " ",
      "f", "a", "i", "l", "e", "d", ":", " ">>
TXT_Error == <<"E", "r", "r", "o", "r">>
TXT_analysis_completed ==
    <<"A", "n", "a", "l", "y", "s", "i", "s", " ",
      "c", "o", "m", "p", "l", "e", "t", "e", "d", ".">>
TXT_no_detailed_analysis ==
    <<"N", "o", " ", "d", "e", "t", "a", "i", "l", "e", "d", " ",
      "a", "n", "a", "l", "y", "s", "i", "s", " ",
      "a", "v", "a", "i", "l", "a", "b", "l", "e", ".">>
TXT_here_to_help_questions ==
    <<"I", "'", "m", " ", "h", "e", "r", "e", " ", "t", "o", " ",
      "h", "e", "l", "p", " ", "w", "i", "t", "h", " ", "y", "o", "u", "r", " ",
      "q", "u", "e", "s", "t", "i", "o", "n", "s", "!">>
TXT_here_to_help_analytics ==
    <<"I", "'", "m", " ", "h", "e", "r", "e", " ", "t", "o", " ",
      "h", "e", "l", "p", " ", "w", "i", "t", "h", " ", "d", "a", "t", "a", " ",
      "a", "n", "a", "l", "y", "t", "i", "c", "s", " ",
      "q", "u", "e", "r", "i", "e", "s", "!">>
TXT_general == <<"g", "e", "n", "e", "r", "a", "l">>
TXT_responding ==
    <<"R", "e", "s", "p", "o", "n", "d", "i", "n", "g", " ", "t", "o", " ",
      "u", "s", "e", "r", " ", "q", "u", "e", "r", "y">>

(***************************************************************************)
(* str.lower()                                                             *)
(***************************************************************************)
UpperLetters ==
    <<"A", "B", "C", "D", "E", "F", "G", "H", "I", "J", "K", "L", "M",
      "N", "O", "P", "Q", "R", "S", "T", "U", "V", "W", "X", "Y", "Z">>
LowerLetters ==
    <<"a", "b", "c", "d", "e", "f", "g", "h", "i", "j", "k", "l", "m",
      "n", "o", "p", "q", "r", "s", "t", "u", "v", "w", "x", "y", "z">>

LowerChar(c) ==
    IF \E i \in DOMAIN UpperLetters : UpperLetters[i] = c
    THEN LowerLetters[CHOOSE i \in DOMAIN UpperLetters : UpperLetters[i] = c]
    ELSE c

lower(s) == [i \in DOMAIN s |-> LowerChar(s[i])]

(***************************************************************************)
(* str.strip()                                                             *)
(***************************************************************************)
Whitespace == {" ", "\n", "\t", "\r"}

strip(s) ==
    LET kept == {i \in DOMAIN s : s[i] \notin Whitespace}
    IN  IF kept = {}
        THEN <<>>
        ELSE SubSeq(s, CHOOSE i \in kept : \A j \in kept : i <= j,
                       CHOOSE i \in kept : \A j \in kept : j <= i)

(***************************************************************************)
(* Outcome of a call: a returned value or a raised exception.              *)
(* str(e) of an exception is its msg.                                      *)
(***************************************************************************)
Returns(val) == [ok |-> TRUE, val |-> val]
Raises(cls, msg) == [ok |-> FALSE, cls |-> cls, msg |-> msg]

(***************************************************************************)
(* Texts of the exceptions the agents' own code can raise.                 *)
(***************************************************************************)
TXT_NoneType == <<"N", "o", "n", "e", "T", "y", "p", "e">>
TXT_int == <<"i", "n", "t">>
TXT_list == <<"l", "i", "s", "t">>
TXT_has_no_attribute_lower ==
    <<"'", " ", "o", "b", "j", "e", "c", "t", " ", "h", "a", "s", " ", "n", "o", " ",
      "a", "t", "t", "r", "i", "b", "u", "t", "e", " ", "'", "l", "o", "w", "e", "r", "'">>
TXT_not_subscriptable ==
    <<"'", " ", "o", "b", "j", "e", "c", "t", " ", "i", "s", " ", "n", "o", "t", " ",
      "s", "u", "b", "s", "c", "r", "i", "p", "t", "a", "b", "l", "e">>
TXT_object_of_type ==
    <<"o", "b", "j", "e", "c", "t", " ", "o", "f", " ", "t", "y", "p", "e", " ", "'">>
TXT_has_no_len == <<"'", " ", "h", "a", "s", " ", "n", "o", " ", "l", "e", "n", "(", ")">>

\* type(x).__name__
TypeName(x) ==
    CASE x.t = "none" -> TXT_NoneType
      [] x.t = "int" -> TXT_int
      [] x.t = "list" -> TXT_list
      [] OTHER -> <<"s", "t", "r">>

(***************************************************************************)
(* RouterAgent.route, given the mapping complete_json returned.            *)
(***************************************************************************)
\* the validated and normalized route (router_agent.py 59-62)
NormalizeRoute(route) ==
    IF route \notin {TXT_data, TXT_non_data} THEN TXT_data ELSE route

route(message, rsp) ==
    LET raw == Get(rsp, "route", PyStr(TXT_data))
        intent == Get(rsp, "user_intent", message)
    IN  IF raw.t # "str"
        THEN Raises("AttributeError",
                    <<"'">> \o TypeName(raw) \o TXT_has_no_attribute_lower)
        ELSE IF intent.t \notin {"str", "list"}
        THEN Raises("TypeError", <<"'">> \o TypeName(intent) \o TXT_not_subscriptable)
        ELSE Returns([route |-> PyStr(NormalizeRoute(lower(raw.v))),
                      confidence |-> Get(rsp, "confidence", PyStr(TXT_medium)),
                      rationale |-> Get(rsp, "rationale", PyStr(TXT_no_rationale)),
                      user_intent |-> intent])

(***************************************************************************)
(* NonDataQAAgent.answer, given the mapping complete_json returned.        *)
(***************************************************************************)
answer(message, rsp) ==
    Returns([answer |-> Get(rsp, "answer", PyStr(TXT_here_to_help_analytics)),
             category |-> Get(rsp, "category", PyStr(TXT_general)),
             rationale |-> Get(rsp, "rationale", PyStr(TXT_responding))])

(***************************************************************************)
(* SqlPlannerAgent.plan, given the mapping complete_json returned.         *)
(***************************************************************************)
plan(question, rsp) ==
    Returns([sql |-> Get(rsp, "sql", PyStr(TXT_select_1)),
             explanation |-> Get(rsp, "explanation", PyStr(TXT_no_explanation)),
             tables_used |-> Get(rsp, "tables_used", PyList(<<>>)),
             key_metrics |-> Get(rsp, "key_metrics", PyList(<<>>)),
             confidence |-> Get(rsp, "confidence", PyStr(TXT_medium))])

(***************************************************************************)
(* SynthesizerAgent.synthesize, given the mapping complete_json returned.  *)
(* columns is a list of str, rows a list of tuples.                        *)
(***************************************************************************)
TXT_x == <<"x">>
TXT_y == <<"y">>
TXT_bar == <<"b", "a", "r">>
TXT_nominal == <<"n", "o", "m", "i", "n", "a", "l">>
TXT_quantitative ==
    <<"q", "u", "a", "n", "t", "i", "t", "a", "t", "i", "v", "e">>
TXT_vega_schema ==
    <<"h", "t", "t", "p", "s", ":", "/", "/", "v", "e", "g", "a", ".",
      "g", "i", "t", "h", "u", "b", ".", "i", "o", "/", "s", "c", "h", "e", "m", "a", "/",
      "v", "e", "g", "a", "-", "l", "i", "t", "e", "/", "v", "5", ".", "j", "s", "o", "n">>

\* rows embedded in a chart, chart size
ChartRowCap == 100
ChartWidth == 400
ChartHeight == 300

MinOf(a, b) == IF a < b THEN a ELSE b

\* mutant: the slice keeps the whole list
Take_Whole(seq, n) == seq

\* seq[:n]
Take(seq, n) == SubSeq(seq, 1, MinOf(n, Len(seq)))

\* dict(zip(columns, row)): pairs up to the shorter length, a repeated key keeps
\* its last value
ZipDict(columns, row) ==
    LET n == MinOf(Len(columns), Len(row))
    IN  [k \in {columns[i] : i \in 1..n} |->
            row[CHOOSE i \in 1..n :
                    /\ columns[i] = k
                    /\ \A j \in 1..n : columns[j] = k => j <= i]]

\* the Vega-Lite spec built from the proposed configuration (a dict); nothing
\* in the try block raises for columns that are str and rows that are tuples
BuildChartSpec(columns, rows, chart_config) ==
    LET data_values == [i \in 1..Len(Take(rows, ChartRowCap)) |-> ZipDict(columns, rows[i])]
    IN  [schema |-> PyStr(TXT_vega_schema),   \* the "$schema" key
         data |-> [values |-> data_values],
         mark |-> Get(chart_config, "mark", PyStr(TXT_bar)),
         width |-> PyInt(ChartWidth),
         height |-> PyInt(ChartHeight),
         encoding |->
            [x |-> [field |-> Get(chart_config, "x_field",
                                  IF columns # <<>> THEN columns[1] ELSE PyStr(TXT_x)),
                    type |-> Get(chart_config, "x_type", PyStr(TXT_nominal))],
             y |-> [field |-> Get(chart_config, "y_field",
                                  IF Len(columns) > 1 THEN columns[2] ELSE PyStr(TXT_y)),
                    type |-> Get(chart_config, "y_type", PyStr(TXT_quantitative))]]]

\* len(x) is defined
HasLen(x) == x.t \in {"str", "list", "dict"}

synthesize(columns, rows, rsp) ==
    LET chart_config == Get(rsp, "chart_config", PyNone)
        chart_spec ==
            IF Truthy(chart_config) /\ chart_config.t = "dict"
            THEN PyDict(BuildChartSpec(columns, rows, chart_config.v))
            ELSE PyNone
        key_findings == Get(rsp, "key_findings", PyList(<<>>))
        recommendations == Get(rsp, "recommendations", PyList(<<>>))
    IN  IF ~HasLen(key_findings)
        THEN Raises("TypeError",
                    TXT_object_of_type \o TypeName(key_findings) \o TXT_has_no_len)
        ELSE IF ~HasLen(recommendations)
        THEN Raises("TypeError",
                    TXT_object_of_type \o TypeName(recommendations) \o TXT_has_no_len)
        ELSE Returns([summary |-> Get(rsp, "summary", PyStr(TXT_analysis_completed)),
                      key_findings |-> key_findings,
                      detailed_analysis |->
                          Get(rsp, "detailed_analysis", PyStr(TXT_no_detailed_analysis)),
                      recommendations |-> recommendations,
                      chart_spec |-> chart_spec])

(***************************************************************************)
(* run_sql (db/sql_runner.py) and the sql_executor the graph is built with *)
(* (ui/streamlit_app.py).  The engine is the table a statement selects     *)
(* from: read_sql gives its rows, cut by the LIMIT clause the statement    *)
(* ends with, if it ends with one.                                         *)
(***************************************************************************)
\* AppConstants.max_preview_rows (MAX_PREVIEW_ROWS unset)
MaxPreviewRows == 100

TXT_limit == <<"l", "i", "m", "i", "t">>
TXT_LIMIT_clause == <<" ", "L", "I", "M", "I", "T", " ">>

\* sub in s
Contains(s, sub) ==
    \E i \in 0..(Len(s) - Len(sub)) : SubSeq(s, i + 1, i + Len(sub)) = sub

Digits == <<"0", "1", "2", "3", "4", "5", "6", "7", "8", "9">>

\* the text an f-string puts for a natural number
RECURSIVE FormatInt(_)
FormatInt(n) ==
    IF n < 10
    THEN <<Digits[n + 1]>>
    ELSE FormatInt(n \div 10) \o <<Digits[(n % 10) + 1]>>

IsDigit(c) == \E i \in DOMAIN Digits : Digits[i] = c

\* the number a run of digits denotes
RECURSIVE ParseInt(_)
ParseInt(s) ==
    IF s = <<>>
    THEN 0
    ELSE 10 * ParseInt(SubSeq(s, 1, Len(s) - 1))
            + (CHOOSE i \in DOMAIN Digits : Digits[i] = s[Len(s)]) - 1

\* the row limit of the LIMIT clause the statement ends with, -1 without one
LimitClause(sql) ==
    LET t == strip(sql)
        k == Len(TXT_limit)
        at == {i \in 1..(Len(t) - k - 1) :
                /\ lower(SubSeq(t, i, i + k - 1)) = TXT_limit
                /\ t[i + k] \in Whitespace
                /\ (i = 1 \/ t[i - 1] \in Whitespace)
                /\ \A j \in (i + k + 1)..Len(t) : IsDigit(t[j])}
    IN  IF at = {}
        THEN 0 - 1
        ELSE ParseInt(SubSeq(t, (CHOOSE i \in at : TRUE) + k + 1, Len(t)))

\* pd.read_sql(text(sql), conn): the data frame of the statement's rows
read_sql(engine, sql) ==
    [columns |-> engine.columns,
     data |-> IF LimitClause(sql) < 0
              THEN engine.data
              ELSE Take(engine.data, LimitClause(sql))]

\* constants.ALLOWED_TABLES
ALLOWED_TABLES ==
    {<<"S", "a", "l", "e", "s", "O", "r", "d", "e", "r", "H", "e", "a", "d", "e", "r">>,
     <<"S", "a", "l", "e", "s", "O", "r", "d", "e", "r", "D", "e", "t", "a", "i", "l">>,
     <<"P", "r", "o", "d", "u", "c", "t">>,
     <<"P", "r", "o", "d", "u", "c", "t", "S", "u", "b", "c", "a", "t", "e", "g", "o", "r", "y">>,
     <<"P", "r", "o", "d", "u", "c", "t", "C", "a", "t", "e", "g", "o", "r", "y">>,
     <<"C", "u", "s", "t", "o", "m", "e", "r">>,
     <<"P", "e", "r", "s", "o", "n">>,
     <<"S", "a", "l", "e", "s", "T", "e", "r", "r", "i", "t", "o", "r", "y">>}

\* validate_sql(sql): what it does with a statement, "passes" when the lowered
\* statement contains the lowered name of an allowlisted table, "warns" (a
\* log record) when it contains none; it returns None in both cases and
\* run_sql goes on to execute the statement
validate_sql(sql) ==
    IF \E t \in ALLOWED_TABLES : Contains(lower(sql), lower(t))
    THEN "passes"
    ELSE "warns"

\* the statement run_sql executes
ApplyLimit(sql, preview) ==
    IF preview /\ ~Contains(lower(sql), TXT_limit)
    THEN strip(sql) \o TXT_LIMIT_clause \o FormatInt(MaxPreviewRows)
    ELSE sql

\* mutant: row_count counts the columns
SqlResult_CountsColumns(df) ==
    [columns |-> df.columns,
     rows |-> [i \in DOMAIN df.data |-> df.data[i]],
     row_count |-> PyInt(Len(df.columns))]

\* SqlResult(columns=list(df.columns), rows=rows, row_count=len(rows))
SqlResult(df) ==
    LET rows == [i \in DOMAIN df.data |-> df.data[i]]
    IN  [columns |-> df.columns, rows |-> rows, row_count |-> PyInt(Len(rows))]

run_sql(engine, sql, preview) ==
    IF sql.t # "str"
    THEN Raises("AttributeError",
                <<"'">> \o TypeName(sql) \o TXT_has_no_attribute_lower)
    ELSE Returns(SqlResult(read_sql(engine, ApplyLimit(sql.v, preview))))

\* sql_executor(sql): run_sql in preview mode, as a dict
sql_executor(engine, sql) ==
    LET res == run_sql(engine, sql, TRUE)
    IN  IF res.ok
        THEN Returns([columns |-> res.val.columns,
                      rows |-> res.val.rows,
                      row_count |-> res.val.row_count])
        ELSE res

(***************************************************************************)
(* BedrockClient.complete_json (llm/bedrock_client.py).  One request makes *)
(* up to max_retries attempts; an attempt is call_bedrock, which invokes   *)
(* the model and, when that raises, invokes it once more.  outcomes[k] is  *)
(* what the backend does at attempt k: the outcome of the first invocation *)
(* (lite) and of the second one (pro).                                     *)
(***************************************************************************)
max_retries == 3
base_delay == 1

TXT_ModelErrorException ==
    <<"M", "o", "d", "e", "l", "E", "r", "r", "o", "r", "E", "x", "c", "e",
      "p", "t", "i", "o", "n">>
TXT_no_valid_json ==
    <<"B", "e", "d", "r", "o", "c", "k", " ", "d", "i", "d", " ", "n", "o",
      "t", " ", "r", "e", "t", "u", "r", "n", " ", "v", "a", "l", "i", "d",
      " ", "J", "S", "O", "N", " ", "o", "r", " ", "P", "y", "t", "h", "o",
      "n", " ", "l", "i", "t", "e", "r", "a", "l", ".">>
TXT_raw_output ==
    <<" ", "R", "a", "w", " ", "o", "u", "t", "p", "u", "t", ":", " ">>

\* call_bedrock_lite when the text of the model is no JSON and no literal, after
\* the repairs: RuntimeError, its message ends with the text (the parser's two
\* messages in between are left out)
ParseFailure(raw) == Raises("RuntimeError", TXT_no_valid_json \o TXT_raw_output \o raw)

\* the model complete_json asks for (the default of the environment variable),
\* and the default model of call_bedrock_pro
BEDROCK_LLM_MODEL_ID ==
    <<"u", "s", ".", "a", "m", "a", "z", "o", "n", ".", "n", "o", "v",
      "a", "-", "l", "i", "t", "e", "-", "v", "1", ":", "0">>
TXT_nova_pro ==
    <<"u", "s", ".", "a", "m", "a", "z", "o", "n", ".", "n", "o", "v",
      "a", "-", "p", "r", "o", "-", "v", "1", ":", "0">>
TXT_claude_sonnet ==
    <<"a", "n", "t", "h", "r", "o", "p", "i", "c", ".", "c", "l", "a",
      "u", "d", "e", "-", "3", "-", "5", "-", "s", "o", "n", "n", "e",
      "t">>

\* call_bedrock_pro(prompt, model_id): one invocation, of model_id when the
\* caller passes it and of the default otherwise; outcome is how it ends
call_bedrock_pro(model_id, outcome) ==
    [modelId |-> IF model_id = Missing THEN TXT_nova_pro ELSE model_id,
     outcome |-> outcome]

\* call_bedrock: the first invocation, and on any exception the second
call_bedrock(lite, pro) == IF lite.ok THEN lite ELSE pro

\* mutant: a request that gives up answers a mapping with a null summary
GiveUp_NullSummary(attempts, slept) ==
    [val |-> [summary |-> PyNone], failed |-> TRUE, attempts |-> attempts, slept |-> slept]

\* the request gives up: logger.error, return {}
GiveUp(attempts, slept) ==
    [val |-> EmptyDict, failed |-> TRUE, attempts |-> attempts, slept |-> slept]

\* the for loop from attempt on (attempt counts from 0), slept being the delays
\* of time.sleep so far.  val is what complete_json returns; failed, attempts
\* and slept tell how the request went.
RECURSIVE CompleteFrom(_, _, _)
CompleteFrom(outcomes, attempt, slept) ==
    LET out == call_bedrock(outcomes[attempt + 1].lite, outcomes[attempt + 1].pro)
    IN  IF out.ok
        THEN [val |-> out.val, failed |-> FALSE, attempts |-> attempt + 1, slept |-> slept]
        ELSE IF Contains(out.msg, TXT_ModelErrorException) /\ attempt < max_retries - 1
        THEN CompleteFrom(outcomes, attempt + 1, Append(slept, base_delay * (2 ^ attempt)))
        ELSE GiveUp(attempt + 1, slept)

complete_json(outcomes) == CompleteFrom(outcomes, 0, <<>>)

(***************************************************************************)
(* AgentStep (graph/state.py).  The trace holds step.__dict__, the very    *)
(* dict complete() writes, so the trace fields and all_steps hold          *)
(* references into heap, the AgentStep objects of the turn.                *)
(***************************************************************************)
AgentStep(agent_name, status, started_at) ==
    [agent_name |-> agent_name,
     status |-> status,
     started_at |-> started_at,
     completed_at |-> PyNone,
     output |-> PyNone,
     error |-> PyNone]

\* AgentStep.complete(output, error) at time now
complete(step, output, error, now) ==
    [step EXCEPT !.completed_at = Time(now),
                 !.status = IF Truthy(error) THEN "error" ELSE "success",
                 !.output = output,
                 !.error = error]

(***************************************************************************)
(* What the collaborators outside the graph can answer.  The generation    *)
(* backend answers one mapping per complete_json call (the empty mapping   *)
(* is its terminal failure); the query engine returns a table or raises;   *)
(* any call can also fail for a reason of its own.                         *)
(***************************************************************************)
TXT_hello == <<"H", "e", "l", "l", "o", "!">>
TXT_top5 == <<"T", "o", "p", " ", "5", " ", "p", "r", "o", "d", "u", "c", "t", "s">>
TXT_DATA == <<"D", "A", "T", "A">>
TXT_Non_Data == <<"N", "o", "n", "-", "D", "a", "t", "a">>
TXT_sql == <<"s", "q", "l">>
TXT_r == <<"r">>
TXT_u == <<"u">>
TXT_hi_there == <<"H", "i", " ", "t", "h", "e", "r", "e", "!">>
TXT_greeting == <<"g", "r", "e", "e", "t", "i", "n", "g">>
TXT_sales_up == <<"S", "a", "l", "e", "s", " ", "a", "r", "e", " ", "u", "p", ".">>
TXT_boom == <<"b", "o", "o", "m">>
TXT_select_qty ==
    <<"S", "E", "L", "E", "C", "T", " ", "q", "t", "y", " ",
      "F", "R", "O", "M", " ", "S", "a", "l", "e", "s">>
TXT_no_such_column ==
    <<"n", "o", " ", "s", "u", "c", "h", " ", "c", "o", "l", "u", "m", "n", ":", " ",
      "q", "t", "y">>
TXT_qty == <<"q", "t", "y">>
TXT_name == <<"n", "a", "m", "e">>
TXT_select_qty_terminated == TXT_select_qty \o <<";", "\n">>

Messages == {PyStr(TXT_hello), PyStr(TXT_top5)}

RouteValues ==
    {PyStr(TXT_data), PyStr(TXT_non_data), PyStr(TXT_DATA), PyStr(TXT_Non_Data),
     PyStr(TXT_sql), PyStr(<<>>), PyNone, PyInt(42)}

\* values the backend may supply for confidence
TXT_low == <<"l", "o", "w">>
TXT_certain == <<"c", "e", "r", "t", "a", "i", "n">>
ConfidenceValues ==
    {PyStr(TXT_high), PyStr(TXT_medium), PyStr(TXT_low), PyStr(TXT_certain), PyNone,
     PyInt(1)}
ConfidenceResponses ==
    {[route |-> PyStr(TXT_data), confidence |-> c] : c \in ConfidenceValues}

RouterResponses ==
    {Mapping([route |-> r, confidence |-> c, user_intent |-> u]) :
        r \in RouteValues \cup {Missing},
        c \in {PyStr(TXT_high), Missing},
        u \in {PyStr(TXT_u), PyNone, Missing}}

AnswerResponses ==
    {EmptyDict,
     [answer |-> PyStr(TXT_hi_there), category |-> PyStr(TXT_greeting),
      rationale |-> PyStr(TXT_r)],
     [answer |-> PyStr(<<>>)],
     [answer |-> PyNone]}

PlannerResponses ==
    {EmptyDict,
     [sql |-> PyStr(TXT_select_qty), explanation |-> PyStr(TXT_r),
      tables_used |-> PyList(<<>>), key_metrics |-> PyList(<<>>),
      confidence |-> PyStr(TXT_high)],
     [sql |-> PyStr(TXT_select_qty_terminated)]}

SynthResponses ==
    {EmptyDict,
     [summary |-> PyStr(TXT_sales_up), key_findings |-> PyList(<<PyStr(TXT_r)>>),
      detailed_analysis |-> PyStr(TXT_r), recommendations |-> PyList(<<>>),
      chart_config |-> PyDict([mark |-> PyStr(TXT_bar)])],
     [summary |-> PyStr(<<>>)],
     [summary |-> PyNone],
     [key_findings |-> PyNone]}

\* failures that do not come from the modelled code of a component, such as a
\* MemoryError, whose str() is empty
Faults == {Raises("MemoryError", <<>>), Raises("RuntimeError", TXT_boom)}

\* the tables a statement of the turn can select from
Engines ==
    {[columns |-> <<PyStr(TXT_qty)>>, data |-> <<<<PyInt(3)>>, <<PyInt(5)>>>>],
     [columns |-> <<PyStr(TXT_qty)>>, data |-> <<>>],
     [columns |-> <<PyStr(TXT_name), PyStr(TXT_qty)>>,
      data |-> <<<<PyStr(TXT_r), PyInt(3)>>>>]}

\* what sql_executor(sql) returns: {"columns", "rows", "row_count"}
ExecResults(sql) == {sql_executor(engine, sql) : engine \in Engines}

\* sqlalchemy.exc.OperationalError carries the driver's exception as orig
OperationalErrors ==
    {[ok |-> FALSE, cls |-> "OperationalError", msg |-> TXT_no_such_column,
      orig |-> TXT_no_such_column]}

\* exceptions of the executor that are no OperationalError
OtherExecErrors == {Raises("ProgrammingError", TXT_boom)} \cup Faults

TXT_model_error ==
    <<"A", "n", " ", "e", "r", "r", "o", "r", " ", "o", "c", "c", "u", "r",
      "r", "e", "d", " ", "(", "M", "o", "d", "e", "l", "E", "r", "r", "o",
      "r", "E", "x", "c", "e", "p", "t", "i", "o", "n", ")", " ", "w", "h",
      "e", "n", " ", "c", "a", "l", "l", "i", "n", "g", " ", "I", "n", "v",
      "o", "k", "e", "M", "o", "d", "e", "l">>
TXT_no_connection ==
    <<"C", "o", "u", "l", "d", " ", "n", "o", "t", " ", "c", "o", "n", "n",
      "e", "c", "t", " ", "t", "o", " ", "t", "h", "e", " ", "e", "n", "d",
      "p", "o", "i", "n", "t", " ", "U", "R", "L">>
TXT_prose ==
    <<"I", " ", "c", "a", "n", "n", "o", "t", " ", "a", "n", "s", "w", "e",
      "r", ".">>
TXT_prose_quoting ==
    <<"M", "o", "d", "e", "l", "E", "r", "r", "o", "r", "E", "x", "c", "e",
      "p", "t", "i", "o", "n", " ", "a", "g", "a", "i", "n">>

\* how an invocation of the model fails: the transient inference error, an
\* unreachable backend, text that is no JSON (one quotes the error's name)
Transient == Raises("ClientError", TXT_model_error)
Unreachable == Raises("EndpointConnectionError", TXT_no_connection)
Unparsable == ParseFailure(TXT_prose)
UnparsableQuoting == ParseFailure(TXT_prose_quoting)

\* an attempt whose two invocations end the same way
Both(outcome) == [lite |-> outcome, pro |-> outcome]

\* the requests of a stage: the backend answers one of responses at once, is
\* unreachable, or answers text that is no JSON
Generations(responses) ==
    {complete_json(<<Both(Returns(rsp))>>) : rsp \in responses}
        \cup {complete_json(<<Both(Unreachable)>>), complete_json(<<Both(Unparsable)>>)}

\* the outcome of a stage's agent call, with how its request to the backend went
WithGeneration(out, gen) ==
    Put(out, "generation", IF gen.failed THEN "failed" ELSE "answered")

RouterOutcomes(message) ==
    {WithGeneration(route(message, gen.val), gen) : gen \in Generations(RouterResponses)}
        \cup Faults
AnswerOutcomes(message) ==
    {WithGeneration(answer(message, gen.val), gen) : gen \in Generations(AnswerResponses)}
        \cup Faults
PlannerOutcomes(question) ==
    {WithGeneration(plan(question, gen.val), gen) : gen \in Generations(PlannerResponses)}
        \cup Faults
SynthOutcomes(columns, rows) ==
    {WithGeneration(synthesize(columns, rows, gen.val), gen) :
        gen \in Generations(SynthResponses)}
        \cup Faults
ExecOutcomes(sql) == ExecResults(sql) \cup OperationalErrors \cup OtherExecErrors

(***************************************************************************)
(* The state of the session.                                               *)
(***************************************************************************)
VARIABLES
    pc,      \* where the turn is: a graph node, a pending collaborator call, done
    state,   \* the dict the graph passes from node to node
    heap,    \* the AgentStep objects created in this turn, in creation order
    frame,   \* local variables of the node that is running
    clock,   \* datetime.now()
    turn,    \* turns started so far
    calls,   \* collaborator calls made in this turn, with how each ended
    routed   \* state["result"]["route"] as the route node left it in this turn

vars == <<pc, state, heap, frame, clock, turn, calls, routed>>

NoFrame == [step |-> PyNone, sql |-> PyNone, error_msg |-> PyNone]

\* the call record of a collaborator call: who was called, with what, and how
\* the call ended
Call(callee, retry, arg, out) ==
    [callee |-> callee, retry |-> retry, arg |-> arg, out |-> out,
     raised |-> IF out.ok THEN "" ELSE out.cls,
     generation |-> IF "generation" \in DOMAIN out THEN out.generation ELSE "none"]

\* str(e)
ExcStr(e) == PyStr(e.msg)

Init ==
    /\ pc = "idle"
    /\ state = EmptyDict
    /\ heap = <<>>
    /\ frame = NoFrame
    /\ clock = 1
    /\ turn = 0
    /\ calls = <<>>
    /\ routed = PyNone

\* the chat input handler: state = {"user_message": prompt}; app.invoke(state)
Invoke(prompt) ==
    /\ pc \in {"idle", "done", "aborted"}
    /\ turn < MaxTurns
    /\ turn' = turn + 1
    /\ state' = [user_message |-> prompt]
    /\ heap' = <<>>
    /\ frame' = NoFrame
    /\ calls' = <<>>
    /\ routed' = PyNone
    /\ pc' = "route"
    /\ UNCHANGED clock

(***************************************************************************)
(* build_graph: the nodes.  Each node opens its step, calls its            *)
(* collaborator and, when the call returns or raises, runs to its end and  *)
(* follows the edge to the next node.                                      *)
(***************************************************************************)
InitialTrace ==
    [router_step |-> PyNone,
     selected_route |-> PyNone,
     planner_step |-> PyNone,
     generated_sql |-> PyNone,
     sql_corrected |-> FALSE,
     original_sql_error |-> PyNone,
     executor_step |-> PyNone,
     execution_metadata |-> PyNone,
     synthesizer_step |-> PyNone,
     synthesis_output |-> PyNone,
     nondata_step |-> PyNone,
     all_steps |-> <<>>]

\* _init_trace(state): the state with its trace structure in place
init_trace(st) ==
    IF "trace" \notin DOMAIN st THEN Put(st, "trace", InitialTrace) ELSE st

\* mutant: the new step is put in front of all_steps
OpenStep_InFront(st, field, agent_name) ==
    LET ref == Ref(Len(heap) + 1)
        trace == [st.trace EXCEPT ![field] = ref,
                                  !.all_steps = <<ref>> \o @]
    IN  /\ heap' = Append(heap, AgentStep(agent_name, "running", Time(clock)))
        /\ state' = Put(st, "trace", trace)
        /\ clock' = clock + 1

\* a node's opening lines: a running step, recorded in its trace field and
\* appended to all_steps (the node keeps the step in frame.step)
OpenStep(st, field, agent_name) ==
    LET ref == Ref(Len(heap) + 1)
        trace == [st.trace EXCEPT ![field] = ref,
                                  !.all_steps = Append(@, ref)]
    IN  /\ heap' = Append(heap, AgentStep(agent_name, "running", Time(clock)))
        /\ state' = Put(st, "trace", trace)
        /\ clock' = clock + 1

\* step.complete(output, error) on the step of the running node
CompleteStep(output, error) ==
    /\ heap' = [heap EXCEPT ![frame.step.v] = complete(@, output, error, clock)]
    /\ clock' = clock + 1

\* mutant: the edge ignores the routing result
route_condition_AlwaysData(st) == "data"

\* the conditional edge after the route node
route_condition(st) ==
    LET result == IF "result" \in DOMAIN st THEN st.result ELSE EmptyDict
    IN  IF Get(result, "route", PyNone) = PyStr(TXT_data) THEN "data" ELSE "nondata"

RouteEdge(st) == IF route_condition(st) = "data" THEN "plan" ELSE "nondata"

RouteOpen ==
    /\ pc = "route"
    /\ OpenStep(init_trace(state), "router_step", "Router")
    /\ frame' = [NoFrame EXCEPT !.step = Ref(Len(heap) + 1)]
    /\ pc' = "route_call"
    /\ UNCHANGED <<turn, calls, routed>>

\* router.route(...) returned a decision
RouteReturn ==
    /\ pc = "route_call"
    /\ \E out \in RouterOutcomes(state.user_message) :
        /\ out.ok
        /\ LET decision == out.val
               output == [route |-> decision.route,
                          confidence |-> decision.confidence,
                          rationale |-> decision.rationale,
                          user_intent |-> decision.user_intent]
               trace == [state.trace EXCEPT !.router_step = frame.step,
                                            !.selected_route = decision.route]
               st == Put(Put(state, "trace", trace), "result",
                         [route |-> decision.route])
           IN  /\ CompleteStep(output, PyNone)
               /\ state' = st
               /\ routed' = st.result.route
               /\ pc' = RouteEdge(st)
        /\ calls' = Append(calls, Call("router", FALSE, state.user_message, out))
    /\ frame' = NoFrame
    /\ UNCHANGED turn

\* router.route(...) raised: the turn defaults to the data path
RouteRaise ==
    /\ pc = "route_call"
    /\ \E out \in RouterOutcomes(state.user_message) :
        /\ ~out.ok
        /\ LET trace == [state.trace EXCEPT !.router_step = frame.step]
               st == Put(Put(state, "trace", trace), "result",
                         [route |-> PyStr(TXT_data)])
           IN  /\ CompleteStep(PyNone, ExcStr(out))
               /\ state' = st
               /\ routed' = st.result.route
               /\ pc' = RouteEdge(st)
        /\ calls' = Append(calls, Call("router", FALSE, state.user_message, out))
    /\ frame' = NoFrame
    /\ UNCHANGED turn

PlanOpen ==
    /\ pc = "plan"
    /\ OpenStep(state, "planner_step", "SQL Planner")
    /\ frame' = [NoFrame EXCEPT !.step = Ref(Len(heap) + 1)]
    /\ pc' = "plan_call"
    /\ UNCHANGED <<turn, calls, routed>>

\* mutant: the node records the statement without its surrounding whitespace
PlanReturn_Strips ==
    /\ pc = "plan_call"
    /\ \E out \in PlannerOutcomes(state.user_message) :
        /\ out.ok
        /\ LET p == out.val
               output == [sql |-> p.sql,
                          explanation |-> p.explanation,
                          tables_used |-> p.tables_used,
                          key_metrics |-> p.key_metrics,
                          confidence |-> p.confidence]
               trace == [state.trace EXCEPT !.planner_step = frame.step,
                                            !.generated_sql = PyStr(strip(p.sql.v))]
           IN  /\ CompleteStep(output, PyNone)
               /\ state' = Put(state, "trace", trace)
        /\ calls' = Append(calls, Call("planner", FALSE, state.user_message, out))
    /\ pc' = "execute"
    /\ frame' = NoFrame
    /\ UNCHANGED <<turn, routed>>

\* planner_factory(...).plan(user_message) returned a plan
PlanReturn ==
    /\ pc = "plan_call"
    /\ \E out \in PlannerOutcomes(state.user_message) :
        /\ out.ok
        /\ LET p == out.val
               output == [sql |-> p.sql,
                          explanation |-> p.explanation,
                          tables_used |-> p.tables_used,
                          key_metrics |-> p.key_metrics,
                          confidence |-> p.confidence]
               trace == [state.trace EXCEPT !.planner_step = frame.step,
                                            !.generated_sql = p.sql]
           IN  /\ CompleteStep(output, PyNone)
               /\ state' = Put(state, "trace", trace)
        /\ calls' = Append(calls, Call("planner", FALSE, state.user_message, out))
    /\ pc' = "execute"
    /\ frame' = NoFrame
    /\ UNCHANGED <<turn, routed>>

\* the planner raised: the placeholder statement is planned
PlanRaise ==
    /\ pc = "plan_call"
    /\ \E out \in PlannerOutcomes(state.user_message) :
        /\ ~out.ok
        /\ LET trace == [state.trace EXCEPT !.planner_step = frame.step,
                                            !.generated_sql = PyStr(TXT_select_1)]
           IN  /\ CompleteStep(PyNone, ExcStr(out))
               /\ state' = Put(state, "trace", trace)
        /\ calls' = Append(calls, Call("planner", FALSE, state.user_message, out))
    /\ pc' = "execute"
    /\ frame' = NoFrame
    /\ UNCHANGED <<turn, routed>>

TXT_None == <<"N", "o", "n", "e">>
TXT_following_failed ==
    <<"T", "h", "e", " ", "f", "o", "l", "l", "o", "w", "i", "n", "g", " ",
      "S", "Q", "L", " ", "f", "a", "i", "l", "e", "d", " ", "w", "i", "t", "h", " ",
      "e", "r", "r", "o", "r", ":", " ">>
TXT_original_sql ==
    <<"O", "r", "i", "g", "i", "n", "a", "l", " ", "S", "Q", "L", ":">>
TXT_user_question ==
    <<"U", "s", "e", "r", " ", "q", "u", "e", "s", "t", "i", "o", "n", ":", " ">>
TXT_fix_the_sql ==
    <<"F", "i", "x", " ", "t", "h", "e", " ", "S", "Q", "L", " ", "t", "o", " ",
      "u", "s", "e", " ", "o", "n", "l", "y", " ", "v", "a", "l", "i", "d", " ",
      "c", "o", "l", "u", "m", "n", "s", " ", "f", "r", "o", "m", " ", "t", "h", "e", " ",
      "s", "c", "h", "e", "m", "a", ".">>

\* the text an f-string puts for a value
Format(x) == IF x.t = "none" THEN TXT_None ELSE x.v

\* mutant: the prompt leaves the user's question out
correction_prompt_NoQuestion(error_msg, sql, user_message) ==
    PyStr(TXT_following_failed \o Format(error_msg) \o <<"\n", "\n">>
          \o TXT_original_sql \o <<"\n">> \o Format(sql) \o <<"\n", "\n">>
          \o TXT_fix_the_sql)

\* the prompt of the correction attempt
correction_prompt(error_msg, sql, user_message) ==
    PyStr(TXT_following_failed \o Format(error_msg) \o <<"\n", "\n">>
          \o TXT_original_sql \o <<"\n">> \o Format(sql) \o <<"\n", "\n">>
          \o TXT_user_question \o Format(user_message) \o <<"\n", "\n">>
          \o TXT_fix_the_sql)

\* str(e.orig) if hasattr(e, "orig") else str(e)
ErrorMsg(e) == IF "orig" \in DOMAIN e THEN PyStr(e.orig) ELSE PyStr(e.msg)

\* mutant: the failure is reported as an empty table
FailureResult_NoRow(error_msg) ==
    [columns |-> <<PyStr(TXT_Error)>>, rows |-> <<>>, row_count |-> PyInt(0)]

\* the table that stands for a failed correction
FailureResult(error_msg) ==
    [columns |-> <<PyStr(TXT_Error)>>,
     rows |-> <<<<PyStr(TXT_sql_execution_failed \o Format(error_msg))>>>>,
     row_count |-> PyInt(1)]

\* the step output of an execution that returned result
ExecOutput(result) ==
    [row_count |-> Get(result, "row_count", PyNone),
     column_count |-> PyInt(Len(Get(result, "columns", <<>>))),
     columns |-> Get(result, "columns", <<>>)]

\* mutant: the metadata always counts no row
FinishExecute_NoRowCounted(st, result) ==
    LET trace == [st.trace EXCEPT
                    !.executor_step = frame.step,
                    !.execution_metadata =
                        [row_count |-> PyInt(0),
                         columns |-> Get(result, "columns", <<>>)]]
    IN  Put(Put(st, "trace", trace), "result", result)

\* the closing lines of execute_node
FinishExecute(st, result) ==
    LET trace == [st.trace EXCEPT
                    !.executor_step = frame.step,
                    !.execution_metadata =
                        [row_count |-> IF DOMAIN result # {}
                                       THEN Get(result, "row_count", PyNone)
                                       ELSE PyInt(0),
                         columns |-> IF DOMAIN result # {}
                                     THEN Get(result, "columns", <<>>)
                                     ELSE <<>>]]
    IN  Put(Put(st, "trace", trace), "result", result)

\* mutant: the handler records the error text and forgets the flag
BeginCorrection_NoFlag(trace, error_msg) ==
    [trace EXCEPT !.original_sql_error = error_msg]

\* the first lines of the OperationalError handler
BeginCorrection(trace, error_msg) ==
    [trace EXCEPT !.sql_corrected = TRUE,
                  !.original_sql_error = error_msg]

ExecOpen ==
    /\ pc = "execute"
    /\ OpenStep(state, "executor_step", "SQL Executor")
    /\ frame' = [NoFrame EXCEPT
                    !.step = Ref(Len(heap) + 1),
                    !.sql = Get(state.trace, "generated_sql", PyStr(TXT_select_1))]
    /\ pc' = "exec_call"
    /\ UNCHANGED <<turn, calls, routed>>

\* sql_executor(sql) returned a table
ExecReturn ==
    /\ pc = "exec_call"
    /\ \E out \in ExecOutcomes(frame.sql) :
        /\ out.ok
        /\ CompleteStep(ExecOutput(out.val), PyNone)
        /\ state' = FinishExecute(state, out.val)
        /\ calls' = Append(calls, Call("executor", FALSE, frame.sql, out))
    /\ pc' = "synthesize"
    /\ frame' = NoFrame
    /\ UNCHANGED <<turn, routed>>

\* sql_executor(sql) raised OperationalError: the correction attempt begins
ExecOperationalError ==
    /\ pc = "exec_call"
    /\ \E out \in ExecOutcomes(frame.sql) :
        /\ ~out.ok
        /\ out.cls = "OperationalError"
        /\ state' = Put(state, "trace", BeginCorrection(state.trace, ErrorMsg(out)))
        /\ frame' = [frame EXCEPT !.error_msg = ErrorMsg(out)]
        /\ calls' = Append(calls, Call("executor", FALSE, frame.sql, out))
    /\ pc' = "correct_plan_call"
    /\ UNCHANGED <<heap, clock, turn, routed>>

\* sql_executor(sql) raised something else: no handler, the exception leaves
\* the node and app.invoke
ExecOtherError ==
    /\ pc = "exec_call"
    /\ \E out \in ExecOutcomes(frame.sql) :
        /\ ~out.ok
        /\ out.cls # "OperationalError"
        /\ calls' = Append(calls, Call("executor", FALSE, frame.sql, out))
    /\ pc' = "aborted"
    /\ UNCHANGED <<state, heap, frame, clock, turn, routed>>

\* the correction's planner call returned a plan
CorrectPlanReturn ==
    /\ pc = "correct_plan_call"
    /\ \E out \in PlannerOutcomes(
                    correction_prompt(frame.error_msg, frame.sql,
                                      Get(state, "user_message", PyStr(<<>>)))) :
        /\ out.ok
        /\ state' = Put(state, "trace",
                        [state.trace EXCEPT !.generated_sql = out.val.sql])
        /\ calls' = Append(calls, Call("planner", TRUE,
                                   correction_prompt(frame.error_msg, frame.sql,
                                                     Get(state, "user_message", PyStr(<<>>))),
                                   out))
    /\ pc' = "correct_exec_call"
    /\ UNCHANGED <<heap, frame, clock, turn, routed>>

\* the correction's planner call raised: the failure table
CorrectPlanRaise ==
    /\ pc = "correct_plan_call"
    /\ \E out \in PlannerOutcomes(
                    correction_prompt(frame.error_msg, frame.sql,
                                      Get(state, "user_message", PyStr(<<>>)))) :
        /\ ~out.ok
        /\ CompleteStep(PyNone, PyStr(TXT_correction_failed \o Format(ExcStr(out))))
        /\ state' = FinishExecute(state, FailureResult(frame.error_msg))
        /\ calls' = Append(calls, Call("planner", TRUE,
                                   correction_prompt(frame.error_msg, frame.sql,
                                                     Get(state, "user_message", PyStr(<<>>))),
                                   out))
    /\ pc' = "synthesize"
    /\ frame' = NoFrame
    /\ UNCHANGED <<turn, routed>>

\* sql_executor(corrected_sql) returned a table
CorrectExecReturn ==
    /\ pc = "correct_exec_call"
    /\ \E out \in ExecOutcomes(state.trace.generated_sql) :
        /\ out.ok
        /\ CompleteStep(Put(ExecOutput(out.val), "corrected", TRUE), PyNone)
        /\ state' = FinishExecute(state, out.val)
        /\ calls' = Append(calls, Call("executor", TRUE, state.trace.generated_sql, out))
    /\ pc' = "synthesize"
    /\ frame' = NoFrame
    /\ UNCHANGED <<turn, routed>>

\* mutant: a failed retry starts another correction attempt
CorrectExecRaise_RetryAgain ==
    /\ pc = "correct_exec_call"
    /\ \E out \in ExecOutcomes(state.trace.generated_sql) :
        /\ ~out.ok
        /\ calls' = Append(calls, Call("executor", TRUE, state.trace.generated_sql, out))
    /\ pc' = "correct_plan_call"
    /\ UNCHANGED <<state, heap, frame, clock, turn, routed>>

\* sql_executor(corrected_sql) raised, whatever the exception: the failure table
CorrectExecRaise ==
    /\ pc = "correct_exec_call"
    /\ \E out \in ExecOutcomes(state.trace.generated_sql) :
        /\ ~out.ok
        /\ CompleteStep(PyNone, PyStr(TXT_correction_failed \o Format(ExcStr(out))))
        /\ state' = FinishExecute(state, FailureResult(frame.error_msg))
        /\ calls' = Append(calls, Call("executor", TRUE, state.trace.generated_sql, out))
    /\ pc' = "synthesize"
    /\ frame' = NoFrame
    /\ UNCHANGED <<turn, routed>>

\* the columns and rows synth_node hands to the synthesizer
SynthColumns(st) == Get(Get(st, "result", EmptyDict), "columns", <<>>)
SynthRows(st) == Get(Get(st, "result", EmptyDict), "rows", <<>>)

SynthOpen ==
    /\ pc = "synthesize"
    /\ OpenStep(state, "synthesizer_step", "Synthesizer")
    /\ frame' = [NoFrame EXCEPT !.step = Ref(Len(heap) + 1)]
    /\ pc' = "synth_call"
    /\ UNCHANGED <<turn, calls, routed>>

\* synthesizer.synthesize(cols, rows) returned: its summary is the final answer
SynthReturn ==
    /\ pc = "synth_call"
    /\ \E out \in SynthOutcomes(SynthColumns(state), SynthRows(state)) :
        /\ out.ok
        /\ LET syn == out.val
               output == [summary |-> syn.summary,
                          key_findings |-> syn.key_findings,
                          detailed_analysis |-> syn.detailed_analysis,
                          recommendations |-> syn.recommendations,
                          has_chart |-> syn.chart_spec # PyNone]
               trace == [state.trace EXCEPT
                            !.synthesizer_step = frame.step,
                            !.synthesis_output =
                                [summary |-> syn.summary,
                                 key_findings |-> syn.key_findings,
                                 detailed_analysis |-> syn.detailed_analysis,
                                 recommendations |-> syn.recommendations,
                                 chart_spec |-> syn.chart_spec]]
           IN  /\ CompleteStep(output, PyNone)
               /\ state' = Put(Put(state, "trace", trace), "final_answer", syn.summary)
        /\ calls' = Append(calls, Call("synthesizer", FALSE,
                                   <<SynthColumns(state), SynthRows(state)>>, out))
    /\ pc' = "done"
    /\ frame' = NoFrame
    /\ UNCHANGED <<turn, routed>>

\* the synthesizer raised: the step is closed and nothing else is set
SynthRaise ==
    /\ pc = "synth_call"
    /\ \E out \in SynthOutcomes(SynthColumns(state), SynthRows(state)) :
        /\ ~out.ok
        /\ CompleteStep(PyNone, ExcStr(out))
        /\ state' = Put(state, "trace",
                        [state.trace EXCEPT !.synthesizer_step = frame.step])
        /\ calls' = Append(calls, Call("synthesizer", FALSE,
                                   <<SynthColumns(state), SynthRows(state)>>, out))
    /\ pc' = "done"
    /\ frame' = NoFrame
    /\ UNCHANGED <<turn, routed>>

NonDataOpen ==
    /\ pc = "nondata"
    /\ OpenStep(init_trace(state), "nondata_step", "Non-Data QA")
    /\ frame' = [NoFrame EXCEPT !.step = Ref(Len(heap) + 1)]
    /\ pc' = "nondata_call"
    /\ UNCHANGED <<turn, calls, routed>>

\* non_data.answer(user_message) returned: its answer is the final answer
NonDataReturn ==
    /\ pc = "nondata_call"
    /\ \E out \in AnswerOutcomes(state.user_message) :
        /\ out.ok
        /\ LET ans == out.val
               output == [answer |-> ans.answer,
                          category |-> ans.category,
                          rationale |-> ans.rationale]
               trace == [state.trace EXCEPT !.nondata_step = frame.step]
           IN  /\ CompleteStep(output, PyNone)
               /\ state' = Put(Put(Put(state, "trace", trace),
                                   "result", [answer |-> ans.answer]),
                               "final_answer", ans.answer)
        /\ calls' = Append(calls, Call("nondata", FALSE, state.user_message, out))
    /\ pc' = "done"
    /\ frame' = NoFrame
    /\ UNCHANGED <<turn, routed>>

\* non_data.answer raised: a fixed answer goes to result, and only there
NonDataRaise ==
    /\ pc = "nondata_call"
    /\ \E out \in AnswerOutcomes(state.user_message) :
        /\ ~out.ok
        /\ CompleteStep(PyNone, ExcStr(out))
        /\ state' = Put(Put(state, "trace",
                            [state.trace EXCEPT !.nondata_step = frame.step]),
                        "result", [answer |-> PyStr(TXT_here_to_help_questions)])
        /\ calls' = Append(calls, Call("nondata", FALSE, state.user_message, out))
    /\ pc' = "done"
    /\ frame' = NoFrame
    /\ UNCHANGED <<turn, routed>>

Next ==
    \/ \E prompt \in Messages : Invoke(prompt)
    \/ RouteOpen
    \/ RouteReturn
    \/ RouteRaise
    \/ PlanOpen
    \/ PlanReturn
    \/ PlanRaise
    \/ ExecOpen
    \/ ExecReturn
    \/ ExecOperationalError
    \/ ExecOtherError
    \/ CorrectPlanReturn
    \/ CorrectPlanRaise
    \/ CorrectExecReturn
    \/ CorrectExecRaise
    \/ SynthOpen
    \/ SynthReturn
    \/ SynthRaise
    \/ NonDataOpen
    \/ NonDataReturn
    \/ NonDataRaise

Spec == Init /\ [][Next]_vars

(***************************************************************************)
(* RouterAgent.route on its own: every message and backend response of the *)
(* input sets, applied once.                                               *)
(***************************************************************************)
RouteInit ==
    /\ pc = "route_entered"
    /\ frame \in {[message |-> m, rsp |-> r] :
                    m \in Messages, r \in RouterResponses \cup ConfidenceResponses}
    /\ state = EmptyDict
    /\ heap = <<>>
    /\ clock = 1
    /\ turn = 0
    /\ calls = <<>>
    /\ routed = PyNone

RouteApply ==
    /\ pc = "route_entered"
    /\ frame' = Put(frame, "out", route(frame.message, frame.rsp))
    /\ pc' = "route_left"
    /\ UNCHANGED <<state, heap, clock, turn, calls, routed>>

RouteSpec == RouteInit /\ [][RouteApply]_vars

(***************************************************************************)
(* run_sql on its own: every statement, table and mode of the input sets,  *)
(* applied once.                                                           *)
(***************************************************************************)
\* rows of the largest table
LargeTable == 150

TXT_select_qty_limit_5 == TXT_select_qty \o <<" ", "L", "I", "M", "I", "T", " ", "5">>
TXT_select_qty_limit_1000 ==
    TXT_select_qty \o <<" ", "l", "i", "m", "i", "t", " ", "1", "0", "0", "0">>
TXT_select_qty_padded == <<" ", " ">> \o TXT_select_qty \o <<"\n">>
TXT_select_credit_limit ==
    <<"S", "E", "L", "E", "C", "T", " ",
      "c", "r", "e", "d", "i", "t", "_", "l", "i", "m", "i", "t", " ",
      "F", "R", "O", "M", " ", "C", "u", "s", "t", "o", "m", "e", "r">>
TXT_select_literal_limit ==
    <<"S", "E", "L", "E", "C", "T", " ", "'", "n", "o", " ", "l", "i", "m", "i", "t", "'", " ",
      "F", "R", "O", "M", " ", "S", "a", "l", "e", "s">>

Statements ==
    {PyStr(TXT_select_1), PyStr(TXT_select_qty), PyStr(TXT_select_qty_padded),
     PyStr(TXT_select_qty_limit_5), PyStr(TXT_select_qty_limit_1000),
     PyStr(TXT_select_credit_limit), PyStr(TXT_select_literal_limit), PyNone}

\* a table of n rows
Table(n) == [columns |-> <<PyStr(TXT_qty)>>, data |-> [i \in 1..n |-> <<PyInt(i)>>]]

TableSizes == {0, 2, MaxPreviewRows, MaxPreviewRows + 1, LargeTable}

RunSqlInit ==
    /\ pc = "run_sql_entered"
    /\ frame \in {[engine |-> Table(n), sql |-> s, preview |-> p] :
                    n \in TableSizes, s \in Statements, p \in BOOLEAN}
    /\ state = EmptyDict
    /\ heap = <<>>
    /\ clock = 1
    /\ turn = 0
    /\ calls = <<>>
    /\ routed = PyNone

RunSqlApply ==
    /\ pc = "run_sql_entered"
    /\ frame' = Put(frame, "out", run_sql(frame.engine, frame.sql, frame.preview))
    /\ pc' = "run_sql_left"
    /\ UNCHANGED <<state, heap, clock, turn, calls, routed>>

RunSqlSpec == RunSqlInit /\ [][RunSqlApply]_vars

(***************************************************************************)
(* SynthesizerAgent.synthesize on its own: every table and backend         *)
(* response of the input sets, applied once.                               *)
(***************************************************************************)
TXT_line == <<"l", "i", "n", "e">>
TXT_nope == <<"n", "o", "p", "e">>

\* backend responses that propose a chart, or something in its place
ChartResponses ==
    {[chart_config |-> PyDict([mark |-> PyStr(TXT_line), x_field |-> PyStr(TXT_qty),
                               y_field |-> PyStr(TXT_qty)])],
     [chart_config |-> PyDict([x_field |-> PyStr(TXT_nope)])],
     [chart_config |-> PyDict([x_field |-> PyStr(TXT_qty), y_field |-> PyStr(TXT_nope)])],
     [chart_config |-> PyNone],
     [chart_config |-> PyDict(EmptyDict)],
     [chart_config |-> PyList(<<PyStr(TXT_bar)>>)]}

\* the columns and rows synth_node can hand over: no result, the result of a
\* statement, the failure table
SynthTables ==
    {[columns |-> <<>>, rows |-> <<>>],
     [columns |-> <<PyStr(TXT_qty)>>, rows |-> <<>>],
     [columns |-> <<PyStr(TXT_qty)>>, rows |-> <<<<PyInt(3)>>, <<PyInt(5)>>>>],
     [columns |-> <<PyStr(TXT_name), PyStr(TXT_qty)>>,
      rows |-> <<<<PyStr(TXT_r), PyInt(3)>>, <<PyStr(TXT_u), PyInt(5)>>>>],
     [columns |-> <<PyStr(TXT_qty), PyStr(TXT_qty)>>, rows |-> <<<<PyInt(3), PyInt(5)>>>>],
     [columns |-> Table(ChartRowCap + 1).columns, rows |-> Table(ChartRowCap + 1).data],
     [columns |-> FailureResult(PyStr(TXT_no_such_column)).columns,
      rows |-> FailureResult(PyStr(TXT_no_such_column)).rows]}

SynthInit ==
    /\ pc = "synth_entered"
    /\ frame \in {[columns |-> t.columns, rows |-> t.rows, rsp |-> r] :
                    t \in SynthTables, r \in SynthResponses \cup ChartResponses}
    /\ state = EmptyDict
    /\ heap = <<>>
    /\ clock = 1
    /\ turn = 0
    /\ calls = <<>>
    /\ routed = PyNone

SynthApply ==
    /\ pc = "synth_entered"
    /\ frame' = Put(frame, "out", synthesize(frame.columns, frame.rows, frame.rsp))
    /\ pc' = "synth_left"
    /\ UNCHANGED <<state, heap, clock, turn, calls, routed>>

SynthSpec == SynthInit /\ [][SynthApply]_vars

(***************************************************************************)
(* BedrockClient.complete_json on its own: every course of the backend     *)
(* over the attempts a request can make, applied once.                     *)
(***************************************************************************)
\* what the backend does at one attempt
Attempts ==
    {Both(o) : o \in {Returns([route |-> PyStr(TXT_data)]), Transient, Unreachable,
                      Unparsable, UnparsableQuoting}}
        \cup {[lite |-> Transient, pro |-> Returns(EmptyDict)],
              [lite |-> Transient, pro |-> Unparsable],
              [lite |-> Unparsable, pro |-> Transient]}

CompleteJsonInit ==
    /\ pc = "complete_json_entered"
    /\ frame \in {[outcomes |-> <<a1, a2, a3>>] : a1 \in Attempts, a2 \in Attempts,
                                                  a3 \in Attempts}
    /\ state = EmptyDict
    /\ heap = <<>>
    /\ clock = 1
    /\ turn = 0
    /\ calls = <<>>
    /\ routed = PyNone

CompleteJsonApply ==
    /\ pc = "complete_json_entered"
    /\ frame' = Put(frame, "out", complete_json(frame.outcomes))
    /\ pc' = "complete_json_left"
    /\ UNCHANGED <<state, heap, clock, turn, calls, routed>>

CompleteJsonSpec == CompleteJsonInit /\ [][CompleteJsonApply]_vars

(***************************************************************************)
(* call_bedrock on its own: the model asked for and how the two            *)
(* invocations end, applied once.  invoked holds the invocations made,     *)
(* each with the modelId given to invoke_model.                            *)
(***************************************************************************)
\* the models BEDROCK_LLM_MODEL_ID can name
ModelIds == {BEDROCK_LLM_MODEL_ID, TXT_nova_pro, TXT_claude_sonnet}

\* how one invocation can end
InvocationOutcomes ==
    {Returns(EmptyDict), Returns([route |-> PyStr(TXT_data)]), Transient, Unreachable,
     Unparsable, UnparsableQuoting}

CallBedrockInit ==
    /\ pc = "call_bedrock_entered"
    /\ frame \in {[model_id |-> id, lite |-> l, pro |-> p] :
                    id \in ModelIds, l \in InvocationOutcomes, p \in InvocationOutcomes}
    /\ state = EmptyDict
    /\ heap = <<>>
    /\ clock = 1
    /\ turn = 0
    /\ calls = <<>>
    /\ routed = PyNone

CallBedrockApply ==
    /\ pc = "call_bedrock_entered"
    /\ LET first == [modelId |-> frame.model_id, outcome |-> frame.lite]
           invoked == IF frame.lite.ok
                      THEN <<first>>
                      ELSE <<first, call_bedrock_pro(frame.model_id, frame.pro)>>
       IN  frame' = Put(Put(frame, "invoked", invoked),
                        "out", call_bedrock(frame.lite, frame.pro))
    /\ pc' = "call_bedrock_left"
    /\ UNCHANGED <<state, heap, clock, turn, calls, routed>>

CallBedrockSpec == CallBedrockInit /\ [][CallBedrockApply]_vars

(***************************************************************************)
(* The session (ui/streamlit_app.py): the script runs again at every       *)
(* interaction.  Here state is st.session_state, frame holds the database  *)
(* behind engine and the value st.cache_resource keeps for init_services,  *)
(* and calls holds the planning calls of the last turn.  A turn is one run *)
(* of the chat input handler; app.invoke is taken by its result.           *)
(***************************************************************************)
\* the default of the chat handler for a turn without final_answer
TXT_analysis_complete ==
    <<"A", "n", "a", "l", "y", "s", "i", "s", " ", "c", "o", "m", "p", "l", "e", "t", "e", ".">>
TXT_Table == <<"T", "a", "b", "l", "e", " ">>
TXT_Sales == <<"S", "a", "l", "e", "s">>
TXT_price == <<"p", "r", "i", "c", "e">>
TXT_INTEGER == <<"I", "N", "T", "E", "G", "E", "R">>
TXT_REAL == <<"R", "E", "A", "L">>
TXT_current_schema ==
    <<"c", "u", "r", "r", "e", "n", "t", "_", "s", "c", "h", "e", "m", "a">>

\* sep.join(texts)
RECURSIVE Join(_, _)
Join(texts, sep) ==
    IF texts = <<>>
    THEN <<>>
    ELSE IF Len(texts) = 1
    THEN texts[1]
    ELSE texts[1] \o sep \o Join(Tail(texts), sep)

\* the schemas the database has over time: a column is added to Sales
Schemas ==
    {<<[name |-> TXT_Sales, columns |-> <<[name |-> TXT_qty, type |-> TXT_INTEGER]>>]>>,
     <<[name |-> TXT_Sales, columns |-> <<[name |-> TXT_qty, type |-> TXT_INTEGER],
                                          [name |-> TXT_price, type |-> TXT_REAL]>>]>>}

\* the body of init_services: introspect_schema(engine) and its description
SchemaText(schema) ==
    Join([i \in DOMAIN schema |->
            TXT_Table \o schema[i].name \o <<":", " ">>
                \o Join([j \in DOMAIN schema[i].columns |->
                            schema[i].columns[j].name \o <<" ", "(">>
                                \o schema[i].columns[j].type \o <<")">>],
                        <<",", " ">>)],
         <<"\n">>)

\* init_services() under st.cache_resource: the body runs when nothing is
\* cached, later runs of the script get the cached value
init_services(cache, database) ==
    IF cache = PyNone
    THEN [schema |-> database, schema_text |-> PyStr(SchemaText(database))]
    ELSE cache

\* planner_factory(_schema): the planner and the schema description it holds
planner_factory(schema_arg, schema_text) == [schema_text |-> schema_text]

\* what app.invoke returns and how many planning calls the graph made: a
\* non-data turn, a data turn, a data turn with a correction and no answer
GraphRuns ==
    {[planning_calls |-> 0,
      final_state |->
        [trace |-> [InitialTrace EXCEPT !.selected_route = PyStr(TXT_non_data)],
         result |-> [answer |-> PyStr(TXT_hi_there)],
         final_answer |-> PyStr(TXT_hi_there)]],
     [planning_calls |-> 1,
      final_state |->
        [trace |-> [InitialTrace EXCEPT !.selected_route = PyStr(TXT_data),
                                        !.generated_sql = PyStr(TXT_select_qty)],
         result |-> sql_executor(Table(2), PyStr(TXT_select_qty)).val,
         final_answer |-> PyStr(TXT_sales_up)]],
     [planning_calls |-> 2,
      final_state |->
        [trace |-> [InitialTrace EXCEPT !.selected_route = PyStr(TXT_data),
                                        !.generated_sql = PyStr(TXT_select_1),
                                        !.sql_corrected = TRUE,
                                        !.original_sql_error = PyStr(TXT_no_such_column)],
         result |-> FailureResult(PyStr(TXT_no_such_column))]]}

SessionInit ==
    /\ pc = "session"
    /\ state = [conversation_history |-> <<>>]
    /\ \E database \in Schemas :
        /\ Len(database[1].columns) = 1
        /\ frame = [database |-> database, cache |-> init_services(PyNone, database)]
    /\ heap = <<>>
    /\ clock = 1
    /\ turn = 0
    /\ calls = <<>>
    /\ routed = PyNone

\* the database gets another schema (outside the program)
SchemaChanges ==
    /\ pc = "session"
    /\ \E database \in Schemas \ {frame.database} :
        frame' = [frame EXCEPT !.database = database]
    /\ UNCHANGED <<pc, state, heap, clock, turn, calls, routed>>

\* a run of the script with a prompt in the chat input
ChatTurn(prompt, run) ==
    /\ pc = "session"
    /\ turn < MaxTurns
    /\ LET services == init_services(frame.cache, frame.database)
           planner == planner_factory(TXT_current_schema, services.schema_text)
           final_state == Put(run.final_state, "user_message", prompt)
           final_answer == Get(final_state, "final_answer", PyStr(TXT_analysis_complete))
           entry == [question |-> prompt,
                     final_answer |-> final_answer,
                     trace |-> Get(final_state, "trace", EmptyDict),
                     result |-> Get(final_state, "result", PyNone)]
       IN  /\ frame' = [frame EXCEPT !.cache = services]
           /\ calls' = [k \in 1..run.planning_calls |->
                            [callee |-> "planner", retry |-> k = 2,
                             schema_text |-> planner.schema_text,
                             database |-> frame.database]]
           /\ state' = [state EXCEPT !.conversation_history = Append(@, entry)]
    /\ turn' = turn + 1
    /\ UNCHANGED <<pc, heap, clock, routed>>

\* the Clear Conversation History button
ClearHistory ==
    /\ pc = "session"
    /\ state' = [state EXCEPT !.conversation_history = <<>>]
    /\ UNCHANGED <<pc, heap, frame, clock, turn, calls, routed>>

SessionNext ==
    \/ SchemaChanges
    \/ \E prompt \in Messages, run \in GraphRuns : ChatTurn(prompt, run)
    \/ ClearHistory

SessionSpec == SessionInit /\ [][SessionNext]_vars

(***************************************************************************)
(* Reading the state.                                                      *)
(***************************************************************************)
HasTrace == "trace" \in DOMAIN state

\* the trace field holds a step
Present(field) == HasTrace /\ state.trace[field] # PyNone

\* the AgentStep a trace field refers to
StepOf(field) == heap[state.trace[field].v]

\* the calls of a collaborator in this turn, original or made by the correction
CallsOf(callee, retry) ==
    {i \in DOMAIN calls : calls[i].callee = callee /\ calls[i].retry = retry}

\* the turn has reached END: app.invoke returns the state
TurnCompleted == pc = "done"

\* the executor raised OperationalError (the engine's QueryExecutionError)
QueryErrorRaised ==
    \E i \in DOMAIN calls : calls[i].callee = "executor" /\ calls[i].raised = "OperationalError"

\* the correction attempt was made and failed
CorrectionFailed == \E i \in DOMAIN calls : calls[i].retry /\ calls[i].raised # ""

RouterRaised == \E i \in CallsOf("router", FALSE) : calls[i].raised # ""

(***************************************************************************)
(* The claims.                                                             *)
(***************************************************************************)

\* C1: when a turn completes, whichever stage raised or fell back to defaults,
\* the returned state has final_answer set to a non-null, non-empty text.
C1_FinalAnswerSetAtCompletion ==
    TurnCompleted =>
        /\ "final_answer" \in DOMAIN state
        /\ state.final_answer.t = "str"
        /\ state.final_answer.v # <<>>

\* C2: whatever exception a stage's collaborator raises (an executor exception
\* that is no OperationalError included), it is caught at the stage boundary and
\* the turn goes on: no exception leaves the turn.
C2_NoExceptionLeavesTheTurn ==
    \A i \in DOMAIN calls : calls[i].raised # "" => pc # "aborted"

\* C3: trace.sql_corrected is true if and only if the executor raised
\* OperationalError at least once during the turn, whether or not the retry
\* succeeded; in particular at the end of the turn.
C3_SqlCorrectedIffQueryError ==
    HasTrace => (state.trace.sql_corrected <=> QueryErrorRaised)

\* C3 witness: a completed turn whose first execution failed and whose retry
\* succeeded, with sql_corrected set.
C3_Witness ==
    /\ TurnCompleted
    /\ state.trace.sql_corrected
    /\ \E i \in CallsOf("executor", TRUE) : calls[i].raised = ""

\* C4: in one turn the correction is entered at most once and only after the
\* first executor call raised OperationalError; planner and executor are each
\* called at most once originally and at most once as a retry; after a failed
\* retry no further planner or executor call is made.
C4_CorrectionBoundedToOne ==
    /\ \A callee \in {"planner", "executor"} : \A retry \in BOOLEAN :
            Cardinality(CallsOf(callee, retry)) <= 1
    /\ \A i \in DOMAIN calls :
            calls[i].retry =>
                \E j \in CallsOf("executor", FALSE) :
                    j < i /\ calls[j].raised = "OperationalError"
    /\ pc \in {"correct_plan_call", "correct_exec_call"} =>
            /\ calls[Len(calls)].callee \in {"executor", "planner"}
            /\ \E j \in CallsOf("executor", FALSE) : calls[j].raised = "OperationalError"
    /\ \A i \in DOMAIN calls :
            (calls[i].retry /\ calls[i].raised # "") =>
                \A j \in DOMAIN calls :
                    j > i => calls[j].callee \notin {"planner", "executor"}

\* C4 witness: a completed turn in which the retried execution failed.
C4_Witness ==
    /\ TurnCompleted
    /\ \E i \in CallsOf("executor", TRUE) : calls[i].raised # ""

\* C5: when the first execution raised OperationalError and the correction
\* attempt failed too, the result is a table of exactly one column and one row
\* (row_count 1) whose single cell is a failure message, the executor step is
\* closed with status error, and the turn goes on to synthesis with that table.
C5_FailedCorrectionGivesFailureTable ==
    CorrectionFailed =>
        /\ pc \in {"synthesize", "synth_call", "done"}
        /\ Len(state.result.columns) = 1
        /\ Len(state.result.rows) = 1
        /\ Len(state.result.rows[1]) = 1
        /\ state.result.row_count = PyInt(1)
        /\ state.result.rows[1][1].t = "str"
        /\ SubSeq(state.result.rows[1][1].v, 1, Len(TXT_sql_execution_failed))
                = TXT_sql_execution_failed
        /\ StepOf("executor_step").status = "error"
        /\ pc = "synth_call" =>
                /\ SynthColumns(state) = state.result.columns
                /\ SynthRows(state) = state.result.rows

\* C5 witness: the synthesizer is being called after a failed correction.
C5_Witness == CorrectionFailed /\ pc = "synth_call"

\* C6: in every completed turn exactly one branch ran: planner, executor and
\* synthesizer steps all present and nondata_step absent, or nondata_step present
\* and none of the three; it is the data path exactly when the routing result
\* is 'data'.
C6_ExactlyOneBranch ==
    TurnCompleted =>
        LET data_all == /\ Present("planner_step")
                        /\ Present("executor_step")
                        /\ Present("synthesizer_step")
            data_any == \/ Present("planner_step")
                        \/ Present("executor_step")
                        \/ Present("synthesizer_step")
        IN  /\ \/ data_all /\ ~Present("nondata_step")
               \/ Present("nondata_step") /\ ~data_any
            /\ data_all <=> (routed = PyStr(TXT_data))

\* C6 witness: a completed turn on the non-data path.
C6_Witness == TurnCompleted /\ Present("nondata_step") /\ routed = PyStr(TXT_non_data)

\* C7: if the router raises, the router step is closed as failed, the next stage
\* entered is the SQL planner and the non-data stage is never entered.
C7_RouterFailureTakesDataPath ==
    RouterRaised =>
        /\ StepOf("router_step").status = "error"
        /\ pc \notin {"nondata", "nondata_call"}
        /\ ~Present("nondata_step")
        /\ Len(state.trace.all_steps) = 1 => pc = "plan"

\* C8: for every message and backend response, route returns a RouteDecision
\* whose route is 'data' or 'non-data', and 'data' whenever the lower-cased
\* backend value is not one of the two.
C8_RouteReturnsValidRoute ==
    pc = "route_left" =>
        LET raw == Get(frame.rsp, "route", PyStr(TXT_data))
        IN  /\ frame.out.ok
            /\ frame.out.val.route \in {PyStr(TXT_data), PyStr(TXT_non_data)}
            /\ (raw.t # "str" \/ lower(raw.v) \notin {TXT_data, TXT_non_data})
                    => frame.out.val.route = PyStr(TXT_data)

\* C9: every recorded step is created running before its component is called,
\* is closed when the component returns or raises, and no recorded step is
\* still running when a turn ends: a running step is the open step of the node
\* whose component is being called.
C9_NoStepLeftRunning ==
    \A i \in DOMAIN heap :
        heap[i].status = "running" =>
            /\ pc \notin {"done", "aborted"}
            /\ frame.step = Ref(i)

\* C10: whenever a stage's component raises, whatever the message text, the
\* stage's step is closed with status error, a non-null error text and no
\* output, never with status success.
StageField(callee) ==
    CASE callee = "router" -> "router_step"
      [] callee = "planner" -> "planner_step"
      [] callee = "executor" -> "executor_step"
      [] callee = "synthesizer" -> "synthesizer_step"
      [] callee = "nondata" -> "nondata_step"

C10_RaisingStageClosedAsError ==
    \A i \in DOMAIN calls :
        (calls[i].raised # "" /\ ~calls[i].retry /\ calls[i].callee # "executor") =>
            /\ StepOf(StageField(calls[i].callee)).status = "error"
            /\ StepOf(StageField(calls[i].callee)).error # PyNone
            /\ StepOf(StageField(calls[i].callee)).output = PyNone

\* the stage that owns final_answer of the turn raised
SynthRaised == \E i \in CallsOf("synthesizer", FALSE) : calls[i].raised # ""
NonDataRaised == \E i \in CallsOf("nondata", FALSE) : calls[i].raised # ""
SynthSucceeded == \E i \in CallsOf("synthesizer", FALSE) : calls[i].raised = ""
NonDataSucceeded == \E i \in CallsOf("nondata", FALSE) : calls[i].raised = ""


\* C11: at turn completion final_answer equals the synthesis summary when the
\* synthesizer succeeded, equals the direct answer when the non-data stage
\* succeeded, and is a fixed fallback text set by the orchestrator when the
\* owning stage failed.
C11_FinalAnswerBySource ==
    TurnCompleted =>
        /\ "final_answer" \in DOMAIN state
        /\ SynthSucceeded =>
                state.final_answer = state.trace.synthesis_output.summary
        /\ NonDataSucceeded =>
                state.final_answer = StepOf("nondata_step").output.answer
        /\ (SynthRaised \/ NonDataRaised) =>
                state.final_answer \in
                    {PyStr(TXT_here_to_help_questions), PyStr(TXT_analysis_complete)}

\* C12: when the non-data agent raises, the final_answer of the turn is the
\* orchestrator's fixed help text.
C12_NonDataFailureAnswer ==
    (TurnCompleted /\ NonDataRaised) =>
        /\ "final_answer" \in DOMAIN state
        /\ state.final_answer = PyStr(TXT_here_to_help_questions)

\* the text ends with the statement terminator once whitespace is trimmed
EndsWithTerminator(sql) ==
    sql.t = "str" /\ strip(sql.v) # <<>> /\ strip(sql.v)[Len(strip(sql.v))] = ";"

\* C13: for every backend response, neither the statement recorded in
\* generated_sql (the sql of the plan the planner returned) nor the statement
\* handed to the executor ends with ';' after trimming whitespace.
C13_NoTrailingTerminator ==
    /\ HasTrace => ~EndsWithTerminator(state.trace.generated_sql)
    /\ pc = "exec_call" => ~EndsWithTerminator(frame.sql)

\* the result of the turn is a table: the data path stored it
ResultIsTable == "result" \in DOMAIN state /\ "columns" \in DOMAIN state.result

C15_PreviewBoundedByCap ==
    (pc = "run_sql_left" /\ frame.preview /\ frame.out.ok) =>
        /\ Len(frame.out.val.rows) <= MaxPreviewRows
        /\ frame.out.val.row_count.v <= MaxPreviewRows

\* the agent names of all_steps, in list order
StepNames ==
    [i \in DOMAIN state.trace.all_steps |-> heap[state.trace.all_steps[i].v].agent_name]

DataPathSteps == <<"Router", "SQL Planner", "SQL Executor", "Synthesizer">>
NonDataPathSteps == <<"Router", "Non-Data QA">>

\* the stages entered so far in the turn, by where the turn is
StagesEntered ==
    CASE pc = "route_call" -> Take(DataPathSteps, 1)
      [] pc = "plan" -> Take(DataPathSteps, 1)
      [] pc \in {"plan_call", "execute"} -> Take(DataPathSteps, 2)
      [] pc \in {"exec_call", "correct_plan_call", "correct_exec_call",
                 "synthesize", "aborted"} -> Take(DataPathSteps, 3)
      [] pc = "synth_call" -> DataPathSteps
      [] pc = "nondata" -> Take(NonDataPathSteps, 1)
      [] pc = "nondata_call" -> NonDataPathSteps
      [] pc = "done" -> IF routed = PyStr(TXT_data) THEN DataPathSteps ELSE NonDataPathSteps
      [] OTHER -> <<>>

\* C16: all_steps holds, in execution order, one entry per stage entered so far
\* and nothing else: the correction attempt adds none and no entry is removed or
\* reordered; at turn completion it is [Router, Non-Data QA] on the non-data path
\* and [Router, SQL Planner, SQL Executor, Synthesizer] on the data path.
C16_AllStepsAreStagesEntered ==
    HasTrace =>
        /\ StepNames = StagesEntered
        /\ \A i, j \in DOMAIN state.trace.all_steps :
                state.trace.all_steps[i] = state.trace.all_steps[j] => i = j
        /\ TurnCompleted => StepNames \in {DataPathSteps, NonDataPathSteps}

\* C16 witness: a data-path turn completed after a correction attempt.
C16_Witness ==
    /\ TurnCompleted
    /\ state.trace.sql_corrected
    /\ StepNames = DataPathSteps

\* the route node sent the turn to the non-data branch
OnNonDataPath == routed # PyNone /\ routed # PyStr(TXT_data)

\* C17: on the non-data path planner, executor and synthesizer are never
\* called and the SQL-related trace fields keep their initial values:
\* planner_step, executor_step, synthesizer_step, generated_sql,
\* original_sql_error, execution_metadata, synthesis_output null and
\* sql_corrected false.
C17_NonDataLeavesSqlFieldsAlone ==
    OnNonDataPath =>
        /\ \A i \in DOMAIN calls :
                calls[i].callee \notin {"planner", "executor", "synthesizer"}
        /\ \A field \in {"planner_step", "executor_step", "synthesizer_step",
                         "generated_sql", "original_sql_error",
                         "execution_metadata", "synthesis_output"} :
                state.trace[field] = PyNone
        /\ state.trace.sql_corrected = FALSE

\* C17 witness: a non-data turn completed with its answer.
C17_Witness == TurnCompleted /\ OnNonDataPath /\ NonDataSucceeded

\* synthesize has returned a Synthesis with a chart
ChartBuilt ==
    pc = "synth_left" /\ frame.out.ok /\ frame.out.val.chart_spec # PyNone

\* the chart configuration the backend proposed, if it is a dict
ProposedChart ==
    IF "chart_config" \in DOMAIN frame.rsp /\ frame.rsp.chart_config.t = "dict"
    THEN frame.rsp.chart_config.v
    ELSE EmptyDict

\* C18: for every column list and backend response, synthesize called with no
\* rows returns a Synthesis whose summary is a non-empty text and whose
\* chart_spec is None.
C18_EmptyRowsSummaryAndNoChart ==
    (pc = "synth_left" /\ frame.rows = <<>>) =>
        /\ frame.out.ok
        /\ frame.out.val.summary.t = "str"
        /\ frame.out.val.summary.v # <<>>
        /\ frame.out.val.chart_spec = PyNone

\* C19: whenever chart_spec is present, its data is the first min(100, number
\* of rows) rows in their order, one record per row keyed by column name, and
\* its mark is 'bar' unless the backend proposed one.
C19_ChartEmbedsFirstRows ==
    ChartBuilt =>
        LET chart == frame.out.val.chart_spec.v
            values == chart.data.values
            columns == frame.columns
        IN  /\ Len(values) = MinOf(100, Len(frame.rows))
            /\ \A i \in DOMAIN values :
                /\ DOMAIN values[i] = {columns[j] : j \in DOMAIN columns}
                /\ \A k \in DOMAIN values[i] :
                        \E j \in DOMAIN columns :
                            columns[j] = k /\ values[i][k] = frame.rows[i][j]
                /\ (\A j1, j2 \in DOMAIN columns : columns[j1] = columns[j2] => j1 = j2)
                        => \A j \in DOMAIN columns :
                                values[i][columns[j]] = frame.rows[i][j]
            /\ chart.mark = IF "mark" \in DOMAIN ProposedChart
                            THEN ProposedChart.mark
                            ELSE PyStr(TXT_bar)

\* C19 witness: a chart over a result of more than 100 rows.
C19_Witness ==
    /\ ChartBuilt
    /\ Len(frame.rows) > 100
    /\ Len(frame.out.val.chart_spec.v.data.values) = 100
    /\ "mark" \notin DOMAIN ProposedChart

\* C20: when the proposed chart configuration names an x or y field that is no
\* column of the result, synthesize returns chart_spec = None, and returns the
\* rest of the Synthesis without raising.
C20_MissingColumnGivesNoChart ==
    (/\ pc = "synth_left"
     /\ \E f \in {"x_field", "y_field"} :
            /\ f \in DOMAIN ProposedChart
            /\ \A j \in DOMAIN frame.columns : frame.columns[j] # ProposedChart[f]) =>
        /\ frame.out.ok
        /\ frame.out.val.chart_spec = PyNone

\* the calls of the turn whose request to the generation backend failed
\* terminally: complete_json gave up
GenerationFailed(callee) ==
    {i \in CallsOf(callee, FALSE) : calls[i].generation = "failed"}

\* C21: whenever the backend request of a stage fails terminally, the failure
\* reaches the stage as a failure and the stage's step ends with status error.
C21_GenerationFailureVisibleInTrace ==
    \A callee \in {"router", "planner", "synthesizer", "nondata"} :
        \A i \in GenerationFailed(callee) :
            /\ calls[i].raised # ""
            /\ StepOf(StageField(callee)).status = "error"


\* C22: when generation fails in the planning stage, the statement of the turn
\* is the placeholder 'SELECT 1', the plan is marked with confidence low, and
\* the executor runs the placeholder.
C22_FailedPlanIsLowConfidencePlaceholder ==
    GenerationFailed("planner") # {} =>
        /\ StepOf("planner_step").output.sql = PyStr(TXT_select_1)
        /\ StepOf("planner_step").output.confidence = PyStr(TXT_low)
        /\ ~state.trace.sql_corrected => state.trace.generated_sql = PyStr(TXT_select_1)
        /\ pc = "exec_call" => frame.sql = PyStr(TXT_select_1)

\* C23: when the backend returns unparsable text for the synthesis stage, the
\* synthesis summary is the fixed default text, the turn reaches completion and
\* final_answer is that non-empty text.
C23_UnparsableSynthesisGivesDefault ==
    GenerationFailed("synthesizer") # {} =>
        /\ TurnCompleted
        /\ \A i \in GenerationFailed("synthesizer") : calls[i].raised = ""
        /\ state.trace.synthesis_output.summary = PyStr(TXT_analysis_completed)
        /\ "final_answer" \in DOMAIN state
        /\ state.final_answer = PyStr(TXT_analysis_completed)
        /\ state.final_answer.v # <<>>

\* C23 witness: a turn completed after the synthesis request failed.
C23_Witness == TurnCompleted /\ GenerationFailed("synthesizer") # {}

\* how attempt k of the request ended, as complete_json saw it
AttemptOutcome(k) == call_bedrock(frame.outcomes[k].lite, frame.outcomes[k].pro)

\* a failure of the transient class: the service's ModelErrorException
TransientFailure(out) ==
    /\ ~out.ok
    /\ out.cls = "ClientError"
    /\ Contains(out.msg, <<"(">> \o TXT_ModelErrorException \o <<")">>)

\* C24: a complete_json request makes at most 3 attempts; a further attempt
\* follows only a failure of the transient class, after waits of 1 s then 2 s;
\* a failure of any other class ends the request at that attempt; the request
\* ends in one outcome, the mapping of the attempt that answered or the failure.
C24_BoundedRetryOnTransientOnly ==
    pc = "complete_json_left" =>
        LET run == frame.out
        IN  /\ run.attempts \in 1..3
            /\ \A k \in 1..(run.attempts - 1) : TransientFailure(AttemptOutcome(k))
            /\ run.slept = SubSeq(<<1, 2>>, 1, run.attempts - 1)
            /\ \A k \in 1..run.attempts :
                    (~AttemptOutcome(k).ok /\ ~TransientFailure(AttemptOutcome(k)))
                        => run.attempts = k /\ run.failed
            /\ IF AttemptOutcome(run.attempts).ok
               THEN ~run.failed /\ run.val = AttemptOutcome(run.attempts).val
               ELSE run.failed /\ run.val = EmptyDict

\* the stages entered so far are the first stages of one of the two paths, each
\* entered once, and a correction call is made only while the executor is the
\* last stage entered
StagesInOrder ==
    HasTrace =>
        /\ \E path \in {DataPathSteps, NonDataPathSteps} :
                StepNames = Take(path, Len(StepNames))
        /\ pc \in {"correct_plan_call", "correct_exec_call"} =>
                StepNames = Take(DataPathSteps, 3)
        /\ TurnCompleted => StepNames \in {DataPathSteps, NonDataPathSteps}

\* C25: given that every collaborator call returns or raises, a turn visits
\* its stages only in the order Routing, then AnsweringNonData or PlanningData,
\* Executing, optionally CorrectingOnce, Synthesizing, enters no stage twice,
\* and ends nowhere but in Done.
C25_TurnRunsInOrderToDone ==
    /\ StagesInOrder
    /\ pc # "aborted"

\* C26: every planning call, the original plan and the correction re-plan,
\* uses the schema description of the database as it is at that call: after the
\* schema changed between two turns the next planning call uses the new one.
C26_PlanningUsesCurrentSchema ==
    pc = "session" =>
        \A i \in DOMAIN calls :
            calls[i].schema_text = PyStr(SchemaText(calls[i].database))

\* C29: the conversation history is append-only: a turn appends exactly one
\* entry at the end and no step of the session removes or changes an entry.
C29_HistoryAppendOnly ==
    [][pc = "session" =>
        LET old == state.conversation_history
            new == state'.conversation_history
        IN  /\ Len(new) >= Len(old)
            /\ SubSeq(new, 1, Len(old)) = old
            /\ Len(new) = IF turn' = turn + 1 THEN Len(old) + 1 ELSE Len(old)]_vars

\* C27: the confidence of every RouteDecision returned is one of high, medium,
\* low, whatever value the backend supplied for it.
C27_ConfidenceIsOneOfThree ==
    (pc = "route_left" /\ frame.out.ok) =>
        frame.out.val.confidence \in {PyStr(TXT_high), PyStr(TXT_medium), PyStr(TXT_low)}

\* C28: run_sql's guard ensures that a statement referencing no allowlisted
\* table is not executed against the engine.
C28_GuardKeepsStatementFromEngine ==
    (pc = "run_sql_left" /\ frame.sql.t = "str" /\ validate_sql(frame.sql.v) = "warns")
        => ~frame.out.ok

\* the correction re-plans of the turn: planner calls made as a retry
Replans == {i \in DOMAIN calls : calls[i].callee = "planner" /\ calls[i].retry}

\* the executions that entered correction: first executions that raised
\* OperationalError
CorrectionsEntered ==
    {i \in DOMAIN calls :
        /\ calls[i].callee = "executor"
        /\ ~calls[i].retry
        /\ calls[i].raised = "OperationalError"}

\* C30: on entering correction the plan generator is invoked once, with a
\* prompt that contains the failed original SQL, the engine's error text and the
\* turn's user message, and the statement executed next is exactly the sql that
\* call returned.
C30_CorrectionReplansOnceAndExecutesItsSql ==
    /\ Cardinality(Replans) <= Cardinality(CorrectionsEntered)
    /\ Cardinality(CorrectionsEntered) <= 1
    /\ \A i \in CorrectionsEntered :
        /\ i = Len(calls) => pc = "correct_plan_call"
        /\ i < Len(calls) =>
            /\ i + 1 \in Replans
            /\ Contains(calls[i + 1].arg.v, Format(calls[i].arg))
            /\ Contains(calls[i + 1].arg.v, Format(ErrorMsg(calls[i].out)))
            /\ Contains(calls[i + 1].arg.v, Format(state.user_message))
            /\ calls[i + 1].out.ok =>
                /\ Get(state.trace, "generated_sql", PyNone) = calls[i + 1].out.val.sql
                /\ i + 1 = Len(calls) => pc = "correct_exec_call"
                /\ i + 1 < Len(calls) =>
                    /\ calls[i + 2].callee = "executor"
                    /\ calls[i + 2].retry
                    /\ calls[i + 2].arg = calls[i + 1].out.val.sql
            /\ ~calls[i + 1].out.ok =>
                \A j \in (i + 2)..Len(calls) : calls[j].callee # "executor"
    /\ \A i \in Replans : i - 1 \in CorrectionsEntered

\* a correction whose re-plan returned a statement that was then executed
C30_Witness ==
    \E i \in Replans :
        /\ calls[i].out.ok
        /\ i < Len(calls)
        /\ calls[i + 1].callee = "executor"
        /\ calls[i + 1].arg = calls[i].out.val.sql
        /\ calls[i + 1].arg # calls[i - 1].arg

\* C31: at every point of a turn original_sql_error is non-null and non-empty
\* exactly when sql_corrected is true, and it then holds the error text of the
\* first failed execution; a failure of the retry never overwrites it.
C31_OriginalErrorIffCorrected ==
    "trace" \in DOMAIN state =>
        LET trace == state.trace
        IN  /\ trace.sql_corrected
                <=> (trace.original_sql_error # PyNone
                        /\ trace.original_sql_error # PyStr(<<>>))
            /\ trace.sql_corrected =>
                /\ CorrectionsEntered # {}
                /\ \A i \in CorrectionsEntered :
                    trace.original_sql_error = ErrorMsg(calls[i].out)

\* the retry failed with another text and the stage has ended
C31_Witness ==
    /\ pc = "synthesize"
    /\ state.trace.sql_corrected
    /\ \E i \in CallsOf("executor", TRUE) :
        /\ ~calls[i].out.ok
        /\ PyStr(calls[i].out.msg) # state.trace.original_sql_error

\* the last element of a non-empty set of call indices
LastOf(indices) == CHOOSE i \in indices : \A j \in indices : j <= i

\* the plan generator's calls of the turn, and those that returned a plan
PlannerCalls == {i \in DOMAIN calls : calls[i].callee = "planner"}
PlansReturned == {i \in PlannerCalls : calls[i].out.ok}
ExecutorCalls == {i \in DOMAIN calls : calls[i].callee = "executor"}

\* execute_node has run to its end, or the exception of the executor left it
ExecutorStageLeft ==
    /\ "trace" \in DOMAIN state
    /\ state.trace.executor_step # PyNone
    /\ pc \in {"synthesize", "synth_call", "done", "aborted"}

\* C32: the orchestrator never alters statement text: trace.generated_sql
\* equals, unchanged, the sql last returned by the plan generator (the
\* placeholder 'SELECT 1' when no planning call returned) and, once the executor
\* stage is left, is the last statement handed to the executor; when the
\* executor step ended with status success the turn's result is the executor's
\* output for generated_sql.
C32_StatementTextNeverAltered ==
    /\ PlannerCalls # {} =>
        state.trace.generated_sql =
            IF PlansReturned # {}
            THEN calls[LastOf(PlansReturned)].out.val.sql
            ELSE PyStr(TXT_select_1)
    /\ ExecutorStageLeft =>
        /\ ExecutorCalls # {}
        /\ calls[LastOf(ExecutorCalls)].arg = state.trace.generated_sql
        /\ StepOf("executor_step").status = "success" =>
            /\ calls[LastOf(ExecutorCalls)].out.ok
            /\ state.result = calls[LastOf(ExecutorCalls)].out.val

\* a turn whose planned statement has surrounding whitespace was executed
\* with success
C32_Witness ==
    /\ ExecutorStageLeft
    /\ StepOf("executor_step").status = "success"
    /\ state.trace.generated_sql.t = "str"
    /\ strip(state.trace.generated_sql.v) # state.trace.generated_sql.v
    /\ state.result.row_count = PyInt(2)

\* the stages that ran in the turn, by the steps they opened
DataStagesRan ==
    /\ state.trace.planner_step # PyNone
    /\ state.trace.executor_step # PyNone
    /\ state.trace.synthesizer_step # PyNone
NonDataStageRan == state.trace.nondata_step # PyNone

\* C33: at turn completion trace.selected_route names the branch that
\* executed: 'data' exactly when the planner, executor and synthesizer stages
\* ran, 'non-data' exactly when the non-data stage ran, also when the router
\* failed.
C33_SelectedRouteNamesBranch ==
    TurnCompleted =>
        /\ state.trace.selected_route = PyStr(TXT_data) <=> DataStagesRan
        /\ state.trace.selected_route = PyStr(TXT_non_data) <=> NonDataStageRan

\* C34: at completion of a data-path turn the sql recorded in the planner
\* step's output equals trace.generated_sql, also when the statement was
\* corrected.
C34_PlannerStepSqlIsGeneratedSql ==
    (TurnCompleted /\ state.trace.planner_step # PyNone) =>
        /\ StepOf("planner_step").output # PyNone
        /\ StepOf("planner_step").output.sql = state.trace.generated_sql

\* the retry returned a table
RetrySucceeded == \E i \in CallsOf("executor", TRUE) : calls[i].out.ok

\* the executor step's output carries corrected = true
CarriesCorrected ==
    LET output == StepOf("executor_step").output
    IN  /\ output # PyNone
        /\ "corrected" \in DOMAIN output
        /\ output.corrected = TRUE

\* what C35 says of the executor step once the stage is over
ExecutorStepTellsCorrection ==
    /\ StepOf("executor_step").status = "error" <=> CorrectionFailed
    /\ CorrectionFailed => state.trace.sql_corrected
    /\ CarriesCorrected <=> (state.trace.sql_corrected /\ RetrySucceeded)
    /\ ~state.trace.sql_corrected => StepOf("executor_step").status = "success"

\* C35: after the executor stage the executor step has status error exactly
\* when the correction attempt failed, which implies sql_corrected; its output
\* carries corrected = true exactly when sql_corrected is true and the retry
\* succeeded; with sql_corrected false the step has status success.
C35_ExecutorStepStatusAndCorrected ==
    ExecutorStageLeft => ExecutorStepTellsCorrection

\* C36: after the executor stage trace.execution_metadata.row_count and
\* .columns equal the row_count and columns of the turn's result table, the
\* one-row failure table included.
C36_MetadataMatchesResultTable ==
    /\ ResultIsTable =>
        /\ state.trace.execution_metadata # PyNone
        /\ state.trace.execution_metadata.row_count = state.result.row_count
        /\ state.trace.execution_metadata.columns = state.result.columns
    /\ ("trace" \in DOMAIN state /\ state.trace.execution_metadata # PyNone)
        => ResultIsTable

\* the stage ended with the failure table, and the metadata describes it
C36_Witness ==
    /\ ExecutorStageLeft
    /\ ResultIsTable
    /\ state.result.columns = <<PyStr(TXT_Error)>>
    /\ state.trace.execution_metadata.row_count = PyInt(1)

\* what each agent returns when every field takes its named default
RouteDefaults(message) ==
    [route |-> PyStr(TXT_data), confidence |-> PyStr(TXT_medium),
     rationale |-> PyStr(TXT_no_rationale), user_intent |-> message]
AnswerDefaults ==
    [answer |-> PyStr(TXT_here_to_help_analytics), category |-> PyStr(TXT_general),
     rationale |-> PyStr(TXT_responding)]
PlanDefaults ==
    [sql |-> PyStr(TXT_select_1), explanation |-> PyStr(TXT_no_explanation),
     tables_used |-> PyList(<<>>), key_metrics |-> PyList(<<>>),
     confidence |-> PyStr(TXT_medium)]
SynthesisDefaults ==
    [summary |-> PyStr(TXT_analysis_completed), key_findings |-> PyList(<<>>),
     detailed_analysis |-> PyStr(TXT_no_detailed_analysis),
     recommendations |-> PyList(<<>>), chart_spec |-> PyNone]

\* the invocation of attempt k whose value call_bedrock returns, if any
Answered(k, val) ==
    LET a == frame.outcomes[k]
    IN  \/ a.lite.ok /\ a.lite.val = val
        \/ ~a.lite.ok /\ a.pro.ok /\ a.pro.val = val

\* C37: complete_json never raises: for every sequence of backend failures it
\* returns the parsed backend output or, on terminal failure, the empty
\* mapping, with which every agent that calls it completes on its named
\* per-field defaults.
C37_CompleteJsonNeverRaises ==
    pc = "complete_json_left" =>
        LET out == frame.out
        IN  /\ "val" \in DOMAIN out
            /\ ~out.failed => Answered(out.attempts, out.val)
            /\ out.failed =>
                /\ out.val = EmptyDict
                /\ \A k \in 1..out.attempts :
                    ~frame.outcomes[k].lite.ok /\ ~frame.outcomes[k].pro.ok
                /\ \A message \in Messages :
                    /\ route(message, out.val) = Returns(RouteDefaults(message))
                    /\ answer(message, out.val) = Returns(AnswerDefaults)
                    /\ plan(message, out.val) = Returns(PlanDefaults)
                /\ \A t \in SynthTables :
                    synthesize(t.columns, t.rows, out.val) = Returns(SynthesisDefaults)

\* a request that gave up after three attempts
C37_Witness ==
    /\ pc = "complete_json_left"
    /\ frame.out.failed
    /\ frame.out.attempts = max_retries

\* C38: when the first invocation inside call_bedrock fails, call_bedrock
\* makes exactly one further invocation, which targets the pro model
\* (us.amazon.nova-pro-v1:0) and not the model of the failed call; when that
\* one fails too, its failure is what call_bedrock raises.
C38_SecondInvocationTargetsPro ==
    (pc = "call_bedrock_left" /\ ~frame.lite.ok) =>
        /\ Len(frame.invoked) = 2
        /\ frame.invoked[2].modelId = TXT_nova_pro
        /\ frame.invoked[2].modelId # frame.invoked[1].modelId
        /\ ~frame.pro.ok => frame.out = frame.pro

====
